---- MODULE Spec2Model ----
(***************************************************************************)
(* A model of the SVG -> DXF conversion pipeline of CnvSvg2Dxf:            *)
(*   - MappingManager.resolve and its helpers      (src/src/mapping.py)    *)
(*   - DxfWriter.write and the entity synthesis    (src/src/dxf_writer.py) *)
(*   - SvgLoader.load and the element traversal    (src/src/svg_loader.py) *)
(*                                                                         *)
(* Python strings are TLA+ strings; a character is a string of length 1.   *)
(* A Python dict is a function whose DOMAIN is its key set, except where   *)
(* the insertion order decides a result (the material table and its alias  *)
(* index), where it is a sequence of <<key, value>> pairs.  None is the    *)
(* empty sequence <<>> and a present optional value v is <<v>>.            *)
(* A float is an integer count of 1/FixedOne (millimetres, or the unit of  *)
(* the attribute); every unit factor of UNIT_CONVERSIONS is exact in it.   *)
(***************************************************************************)
EXTENDS Integers, Sequences, FiniteSets, TLC

(***************************************************************************)
(* Bounds of the model.                                                    *)
(***************************************************************************)
\* longest rule list handed to the resolver
MaxRules == 2
\* most classes on the element of a primitive handed to the resolver
MaxClasses == 1
\* most primitives in a multi-primitive document handed to the writer
MaxDocPrims == 2
\* most top-level elements of a document in the loader's file system
MaxElems == 2

(***************************************************************************)
(* Python's str operations.                                                *)
(***************************************************************************)
Ch(s, i) == SubSeq(s, i, i)

Uppers == "ABCDEFGHIJKLMNOPQRSTUVWXYZ"
Lowers == "abcdefghijklmnopqrstuvwxyz"
Digits == "0123456789"

RECURSIVE IndexIn(_, _, _)
\* 1-based position of character c in s at or after i; 0 when absent (str.find)
IndexIn(s, c, i) ==
    IF i > Len(s) THEN 0
    ELSE IF Ch(s, i) = c THEN i
    ELSE IndexIn(s, c, i + 1)

Contains(s, c) == IndexIn(s, c, 1) > 0

\* the characters of s
Chars(s) == {Ch(s, i) : i \in 1..Len(s)}

UpperSet == Chars(Uppers)
LowerSet == Chars(Lowers)
DigitSet == Chars(Digits)

IsAlpha(c) == c \in UpperSet \/ c \in LowerSet
IsDigit(c) == c \in DigitSet
IsAlnum(c) == IsAlpha(c) \/ IsDigit(c)
IsSpace(c) == c = " "

ToLower == [c \in UpperSet |-> Ch(Lowers, IndexIn(Uppers, c, 1))]
ToUpper == [c \in LowerSet |-> Ch(Uppers, IndexIn(Lowers, c, 1))]
DigitOf == [c \in DigitSet |-> IndexIn(Digits, c, 1) - 1]

LowerCh(c) == IF c \in UpperSet THEN ToLower[c] ELSE c
UpperCh(c) == IF c \in LowerSet THEN ToUpper[c] ELSE c

RECURSIVE Lower(_)
Lower(s) == IF s = "" THEN "" ELSE LowerCh(Ch(s, 1)) \o Lower(SubSeq(s, 2, Len(s)))

RECURSIVE Upper(_)
Upper(s) == IF s = "" THEN "" ELSE UpperCh(Ch(s, 1)) \o Upper(SubSeq(s, 2, Len(s)))

RECURSIVE LStrip(_)
LStrip(s) == IF s # "" /\ IsSpace(Ch(s, 1)) THEN LStrip(SubSeq(s, 2, Len(s))) ELSE s

RECURSIVE RStrip(_)
RStrip(s) == IF s # "" /\ IsSpace(Ch(s, Len(s))) THEN RStrip(SubSeq(s, 1, Len(s) - 1)) ELSE s

Strip(s) == RStrip(LStrip(s))

StartsWith(s, p) == Len(s) >= Len(p) /\ SubSeq(s, 1, Len(p)) = p

\* s.split(c, 1): the parts before and after the first c (c must occur in s)
SplitHead(s, c) == SubSeq(s, 1, IndexIn(s, c, 1) - 1)
SplitTail(s, c) == SubSeq(s, IndexIn(s, c, 1) + 1, Len(s))

RECURSIVE FnMatch(_, _)
\* fnmatch.fnmatch on a POSIX host (normcase is the identity): "*" matches any
\* run of characters, "?" any one character, anything else itself
FnMatch(name, pat) ==
    IF pat = "" THEN name = ""
    ELSE IF Ch(pat, 1) = "*"
         THEN \/ FnMatch(name, SubSeq(pat, 2, Len(pat)))
              \/ (name # "" /\ FnMatch(SubSeq(name, 2, Len(name)), pat))
    ELSE IF name = "" THEN FALSE
    ELSE /\ (Ch(pat, 1) = "?" \/ Ch(pat, 1) = Ch(name, 1))
         /\ FnMatch(SubSeq(name, 2, Len(name)), SubSeq(pat, 2, Len(pat)))

(***************************************************************************)
(* Optional values, dicts.                                                 *)
(***************************************************************************)
None == <<>>
Some(v) == <<v>>
IsNone(o) == o = <<>>
The(o) == o[1]

EmptyDict == <<>>
Has(d, k) == k \in DOMAIN d
\* dict.update
Update(d, e) == [k \in (DOMAIN d) \cup (DOMAIN e) |-> IF k \in DOMAIN e THEN e[k] ELSE d[k]]
\* dict.get(k) or ""  (for string-valued dicts)
GetOrEmpty(d, k) == IF Has(d, k) THEN d[k] ELSE ""

(***************************************************************************)
(* Results of calls that may raise.                                        *)
(***************************************************************************)
Ok(v) == [ok |-> TRUE, val |-> v]
Raised(e) == [ok |-> FALSE, val |-> e]

(***************************************************************************)
(* Numbers.  A float is an integer count of 1/FixedOne.                    *)
(***************************************************************************)
FixedOne == 2880 * 1000

RECURSIVE AllDigits(_)
AllDigits(s) == s = "" \/ (IsDigit(Ch(s, 1)) /\ AllDigits(SubSeq(s, 2, Len(s))))

RECURSIVE DigitsVal(_)
DigitsVal(s) ==
    IF s = "" THEN 0
    ELSE DigitsVal(SubSeq(s, 1, Len(s) - 1)) * 10 + DigitOf[Ch(s, Len(s))]

RECURSIVE Pow10(_)
Pow10(n) == IF n = 0 THEN 1 ELSE 10 * Pow10(n - 1)

\* float() of an unsigned decimal literal "ddd", "ddd.ddd", ".ddd" or "ddd."
\* (exact for at most four decimals)
UnsignedFloat(s) ==
    LET dot == IndexIn(s, ".", 1)
        ip  == IF dot = 0 THEN s ELSE SubSeq(s, 1, dot - 1)
        fp  == IF dot = 0 THEN "" ELSE SubSeq(s, dot + 1, Len(s))
    IN  IF (ip = "" /\ fp = "") \/ ~AllDigits(ip) \/ ~AllDigits(fp)
        THEN Raised("ValueError")
        ELSE Ok(DigitsVal(ip) * FixedOne + DigitsVal(fp) * (FixedOne \div Pow10(Len(fp))))

\* float(s): surrounding blanks are ignored, one sign is allowed; any other
\* text raises ValueError
ParseFloat(s) ==
    LET t == Strip(s)
    IN  IF t = "" THEN Raised("ValueError")
        ELSE IF Ch(t, 1) = "-"
             THEN LET u == UnsignedFloat(SubSeq(t, 2, Len(t)))
                  IN  IF u.ok THEN Ok(0 - u.val) ELSE u
        ELSE IF Ch(t, 1) = "+" THEN UnsignedFloat(SubSeq(t, 2, Len(t)))
        ELSE UnsignedFloat(t)

RECURSIVE AlphaOnly(_)
\* "".join(ch for ch in value if ch.isalpha())
AlphaOnly(s) ==
    IF s = "" THEN ""
    ELSE (IF IsAlpha(Ch(s, 1)) THEN Ch(s, 1) ELSE "") \o AlphaOnly(SubSeq(s, 2, Len(s)))

RECURSIVE RStripLetters(_)
\* value.rstrip("abc...xyzABC...XYZ")
RStripLetters(s) ==
    IF s # "" /\ IsAlpha(Ch(s, Len(s))) THEN RStripLetters(SubSeq(s, 1, Len(s) - 1)) ELSE s

\* UNIT_CONVERSIONS.get(unit): magnitude * factor, or None for an unknown unit
\* (exact for a magnitude of at most three decimals)
UnitScaled(m, unit) ==
    CASE unit = "mm" -> Some(m)
      [] unit = "cm" -> Some(m * 10)
      [] unit = "in" -> Some((m \div 10) * 254)
      [] unit = "pt" -> Some((m \div 720) * 254)
      [] unit = "pc" -> Some((m \div 60) * 254)
      [] unit = "px" -> Some((m \div 960) * 254)
      [] OTHER -> None

\* parse_length: value is None or Some(string); never raises
parse_length(value) ==
    IF IsNone(value) \/ The(value) = "" THEN 0
    ELSE LET v      == Strip(The(value))
             unit   == AlphaOnly(v)
             number == ParseFloat(RStripLetters(v))
         IN  IF ~number.ok THEN 0
             ELSE IF unit = "" THEN number.val
             ELSE LET scaled == UnitScaled(number.val, Lower(unit))
                  IN  IF IsNone(scaled) THEN number.val ELSE The(scaled)

(***************************************************************************)
(* Colours.                                                                *)
(***************************************************************************)
HexDigits == "0123456789abcdefABCDEF"

\* whether s, the text of a base-16 literal after its sign and prefix, is
\* made of hex digits with single underscores between them; prev: what came
\* before s ("start", "prefix", "digit" or "underscore")
RECURSIVE HexRun(_, _)
HexRun(s, prev) ==
    IF s = "" THEN prev = "digit"
    ELSE IF Ch(s, 1) \in Chars(HexDigits) THEN HexRun(SubSeq(s, 2, Len(s)), "digit")
    ELSE IF Ch(s, 1) = "_"
         THEN prev \in {"digit", "prefix"} /\ HexRun(SubSeq(s, 2, Len(s)), "underscore")
    ELSE FALSE

\* the value of the hex digits of s, underscores passed over
RECURSIVE HexVal(_)
HexVal(s) ==
    IF s = "" THEN 0
    ELSE IF Ch(s, Len(s)) = "_" THEN HexVal(SubSeq(s, 1, Len(s) - 1))
    ELSE HexVal(SubSeq(s, 1, Len(s) - 1)) * 16
         + IndexIn("0123456789ABCDEF", UpperCh(Ch(s, Len(s))), 1) - 1

\* int of the digits body, in base 16: Ok(n) or ValueError.  prev: "prefix"
\* after 0x, else "start"; negative: after a minus sign
Int16Body(body, prev, negative) ==
    IF ~HexRun(body, prev) THEN Raised("ValueError")
    ELSE Ok(IF negative THEN 0 - HexVal(body) ELSE HexVal(body))

\* int of u, the text after the sign, in base 16
Int16Prefixed(u, negative) ==
    IF Len(u) >= 2 /\ Lower(SubSeq(u, 1, 2)) = "0x"
    THEN Int16Body(SubSeq(u, 3, Len(u)), "prefix", negative)
    ELSE Int16Body(u, "start", negative)

\* int of t, stripped text, in base 16
Int16Signed(t) ==
    IF t # "" /\ Ch(t, 1) \in {"+", "-"}
    THEN Int16Prefixed(SubSeq(t, 2, Len(t)), Ch(t, 1) = "-")
    ELSE Int16Prefixed(t, FALSE)

\* int(s, 16): surrounding blanks, one sign, a 0x prefix and single
\* underscores between digits are allowed; Ok(n) or ValueError
int16(s) == Int16Signed(Strip(s))

RECURSIVE Doubled(_)
\* "".join(ch * 2 for ch in hex_value)
Doubled(s) == IF s = "" THEN "" ELSE Ch(s, 1) \o Ch(s, 1) \o Doubled(SubSeq(s, 2, Len(s)))

\* normalize_hex returning the digits without the leading "#"
normalize_hex_bare(value) ==
    IF ~StartsWith(value, "#") THEN Raised("ValueError")
    ELSE LET h0 == SubSeq(value, 2, Len(value))
             h  == IF Len(h0) = 3 THEN Doubled(h0) ELSE h0
         IN  IF Len(h) # 6 \/ ~int16(h).ok THEN Raised("ValueError")
             ELSE Ok(Upper(h))

\* normalize_hex: Ok("#RRGGBB") or ValueError
normalize_hex(value) ==
    IF ~StartsWith(value, "#") THEN Raised("ValueError")
    ELSE LET h0 == SubSeq(value, 2, Len(value))
             h  == IF Len(h0) = 3 THEN Doubled(h0) ELSE h0
         IN  IF Len(h) # 6 \/ ~int16(h).ok THEN Raised("ValueError")
             ELSE Ok("#" \o Upper(h))

\* CSS_COLOR_MAP.get(name): Some(hex) or None
CSS_COLOR_MAP(name) ==
    CASE name = "black" -> Some("#000000")
      [] name = "white" -> Some("#FFFFFF")
      [] name = "red" -> Some("#FF0000")
      [] name = "green" -> Some("#00FF00")
      [] name = "blue" -> Some("#0000FF")
      [] name = "yellow" -> Some("#FFFF00")
      [] name = "magenta" -> Some("#FF00FF")
      [] name = "cyan" -> Some("#00FFFF")
      [] name = "gray" -> Some("#808080")
      [] name = "grey" -> Some("#808080")
      [] name = "lightgray" -> Some("#D3D3D3")
      [] name = "darkgray" -> Some("#404040")
      [] OTHER -> None

\* parse_color_spec: value and fallback are None or Some(string), and so is
\* the result
parse_color_spec(value, fallback) ==
    IF IsNone(value) \/ The(value) = "" THEN fallback
    ELSE LET spec == Strip(The(value))
         IN  IF spec = "" THEN fallback
             ELSE IF Lower(spec) = "bylayer" THEN Some("BYLAYER")
             ELSE IF Lower(spec) = "byblock" THEN Some("BYBLOCK")
             ELSE IF StartsWith(spec, "#")
                  THEN LET h == normalize_hex(spec)
                       IN  IF h.ok THEN Some(h.val) ELSE fallback
             ELSE LET css == CSS_COLOR_MAP(Lower(spec))
                  IN  IF ~IsNone(css) THEN css ELSE fallback

\* int(v[0:2], 16) << 16 | int(v[2:4], 16) << 8 | int(v[4:6], 16), given the
\* three conversions
RgbSum(r, g, b) ==
    IF ~r.ok \/ ~g.ok \/ ~b.ok THEN Raised("ValueError")
    ELSE Ok(r.val * 65536 + g.val * 256 + b.val)

\* parse_rgb, from the length test on
RgbOf(v) ==
    IF Len(v) # 6 THEN Raised("ValueError")
    ELSE RgbSum(int16(SubSeq(v, 1, 2)), int16(SubSeq(v, 3, 4)), int16(SubSeq(v, 5, 6)))

\* the stripped value without its leading "#", if it has one
HexPart(v0) == IF StartsWith(v0, "#") THEN SubSeq(v0, 2, Len(v0)) ELSE v0

\* parse_rgb: the DXF true-colour integer of "#RRGGBB", or ValueError
parse_rgb(value) == RgbOf(HexPart(Strip(value)))

(***************************************************************************)
(* Insertion-ordered dicts: sequences of <<key, value>> with unique keys.  *)
(***************************************************************************)
RECURSIVE ODIndex(_, _, _)
ODIndex(od, k, i) ==
    IF i > Len(od) THEN 0 ELSE IF od[i][1] = k THEN i ELSE ODIndex(od, k, i + 1)

ODHas(od, k) == ODIndex(od, k, 1) > 0
\* od.get(k): Some(value) or None
ODGet(od, k) == IF ODHas(od, k) THEN Some(od[ODIndex(od, k, 1)][2]) ELSE None
\* od[k] = v
ODSet(od, k, v) ==
    IF ODHas(od, k)
    THEN [od EXCEPT ![ODIndex(od, k, 1)] = <<k, v>>]
    ELSE Append(od, <<k, v>>)

(***************************************************************************)
(* models.py: the records.                                                 *)
(***************************************************************************)
\* SvgPrimitive(kind, points, style, classes, element_id, attributes, extra)
SvgPrimitive(kind, points, style, classes, element_id, attributes, extra) ==
    [kind |-> kind, points |-> points, style |-> style, classes |-> classes,
     element_id |-> element_id, attributes |-> attributes, extra |-> extra]

\* MappingRule(selector, layer, color, linetype, lineweight_mm)
MappingRule(selector, layer, color, linetype, lineweight_mm) ==
    [selector |-> selector, layer |-> layer, color |-> color,
     linetype |-> linetype, lineweight_mm |-> lineweight_mm]

\* LayerAttributes(layer, color, linetype, lineweight_mm)
LayerAttributes(layer, color, linetype, lineweight_mm) ==
    [layer |-> layer, color |-> color, linetype |-> linetype,
     lineweight_mm |-> lineweight_mm]

\* a float literal of the source, in thousandths
Milli(n) == n * (FixedOne \div 1000)

(***************************************************************************)
(* mapping.py: the material table.                                         *)
(***************************************************************************)
\* a raw table value: a bare string, a number, or a dict of fields whose
\* values are bare strings or numbers
StrValue(s) == [t |-> "str", v |-> s]
DictValue(d) == [t |-> "dict", v |-> d]
NumValue(n) == [t |-> "num", v |-> n]

MaterialFields == <<"layer", "color", "linetype", "lineweight">>

\* value[field] not in (None, "")
FieldKept(d, f) == Has(d, f) /\ ~(d[f].t = "str" /\ d[f].v = "")

\* the entry _normalize_material_map builds from one raw value
MaterialEntry(value) ==
    IF value.t = "str" THEN [layer |-> StrValue(Strip(value.v))]
    ELSE IF value.t = "dict"
         THEN [f \in {g \in DOMAIN value.v : FieldKept(value.v, g)} |-> value.v[f]]
    ELSE EmptyDict

RECURSIVE NormalizeFrom(_, _, _)
NormalizeFrom(data, i, result) ==
    IF i > Len(data) THEN result
    ELSE LET key_clean == Strip(data[i][1])
             entry     == MaterialEntry(data[i][2])
         IN  IF key_clean = "" \/ DOMAIN entry = {}
             THEN NormalizeFrom(data, i + 1, result)
             ELSE NormalizeFrom(data, i + 1, ODSet(result, key_clean, entry))

\* _normalize_material_map: data is the raw table in its insertion order
_normalize_material_map(data) == NormalizeFrom(data, 1, <<>>)

RECURSIVE AliasFrom(_, _, _)
AliasFrom(table, i, alias) ==
    IF i > Len(table) THEN alias
    ELSE AliasFrom(table, i + 1, ODSet(alias, Lower(table[i][1]), table[i][1]))

\* {key.lower(): key for key in table}
AliasOf(table) == AliasFrom(table, 1, <<>>)

(***************************************************************************)
(* mapping.py: the pattern table.                                          *)
(***************************************************************************)
BoolValue(b) == [t |-> "bool", v |-> b]

PatternEntry(pattern, scale) ==
    [pattern |-> StrValue(pattern), scale |-> NumValue(scale), angle |-> NumValue(0)]

\* DEFAULT_PATTERN_MAP
DEFAULT_PATTERN_MAP ==
    << <<"concrete", PatternEntry("AR-CONC", Milli(1000))>>,
       <<"brick", PatternEntry("AR-BRSTD", Milli(1000))>>,
       <<"glass", PatternEntry("AR-SHINGLE", Milli(1000))>>,
       <<"sand", PatternEntry("AR-SAND", Milli(1000))>>,
       <<"wood", PatternEntry("AR-WOOD", Milli(1000))>>,
       <<"steel", PatternEntry("ANSI37", Milli(1000))>>,
       <<"diagonal1", PatternEntry("ANSI45", Milli(1000))>>,
       <<"diagonal2", PatternEntry("ANSI45", Milli(500))>>,
       <<"diagonal3", PatternEntry("ANSI45", Milli(330))>>,
       <<"crosshatch1", PatternEntry("ANSI31", Milli(1000))>>,
       <<"crosshatch2", PatternEntry("ANSI31", Milli(500))>>,
       <<"crosshatch3", PatternEntry("ANSI31", Milli(330))>>,
       <<"square1", PatternEntry("AR-SQUARE", Milli(1000))>>,
       <<"square2", PatternEntry("AR-SQUARE", Milli(500))>>,
       <<"square3", PatternEntry("AR-SQUARE", Milli(330))>>,
       <<"honeycomb", PatternEntry("AR-HBONE", Milli(1000))>>,
       <<"earth", PatternEntry("AR-EARTH", Milli(1000))>>,
       <<"liquid", PatternEntry("AR-RIPPLE", Milli(1000))>>,
       <<"grass", PatternEntry("AR-SAND", Milli(750))>> >>

\* float(x) of a table value, kept as it is when float() raises
CoerceFloat(x) ==
    IF x.t = "str"
    THEN LET f == ParseFloat(x.v) IN IF f.ok THEN NumValue(f.val) ELSE x
    ELSE IF x.t = "bool" THEN NumValue(IF x.v THEN FixedOne ELSE 0)
    ELSE x

\* the truth of a "solid" value
CoerceSolid(x) ==
    IF x.t = "str" THEN BoolValue(Lower(Strip(x.v)) \in {"true", "1", "yes", "y"})
    ELSE IF x.t = "num" THEN BoolValue(x.v # 0)
    ELSE x

\* _coerce_pattern_entry
_coerce_pattern_entry(entry) ==
    [f \in DOMAIN entry |->
        IF f \in {"scale", "angle"} THEN CoerceFloat(entry[f])
        ELSE IF f = "solid" THEN CoerceSolid(entry[f])
        ELSE entry[f]]

PatternFields == {"pattern", "scale", "angle", "color", "solid"}

\* the entry _normalize_pattern_map builds from one raw value
PatternEntryOf(value) ==
    IF value.t = "str" THEN [pattern |-> StrValue(value.v)]
    ELSE IF value.t = "dict"
         THEN [f \in {g \in DOMAIN value.v : g \in PatternFields /\ FieldKept(value.v, g)}
                   |-> value.v[f]]
    ELSE EmptyDict

RECURSIVE NormalizePatternsFrom(_, _, _)
NormalizePatternsFrom(data, i, result) ==
    IF i > Len(data) THEN result
    ELSE LET key_clean == Strip(data[i][1])
             entry     == PatternEntryOf(data[i][2])
         IN  IF key_clean = "" \/ DOMAIN entry = {}
             THEN NormalizePatternsFrom(data, i + 1, result)
             ELSE NormalizePatternsFrom(data, i + 1,
                                        ODSet(result, key_clean, _coerce_pattern_entry(entry)))

\* _normalize_pattern_map
_normalize_pattern_map(data) == NormalizePatternsFrom(data, 1, <<>>)

RECURSIVE Overlay(_, _, _)
\* for key, value in normalized.items(): combined[key] = coerce(value)
Overlay(combined, normalized, i) ==
    IF i > Len(normalized) THEN combined
    ELSE Overlay(ODSet(combined, normalized[i][1], _coerce_pattern_entry(normalized[i][2])),
                 normalized, i + 1)

\* the pattern table of with_defaults and set_pattern_map: the defaults
\* overlaid by the normalised user table
CombinedPatterns(data) == Overlay(DEFAULT_PATTERN_MAP, _normalize_pattern_map(data), 1)

\* sanitize_style_name (mapping.py and dxf_writer.py define it alike)
RECURSIVE StyleChars(_, _)
StyleChars(s, i) ==
    IF i > Len(s) THEN ""
    ELSE LET c == Ch(s, i)
         IN  (IF IsAlnum(c) \/ c \in {"-", "_"} THEN c
              ELSE IF c = " " THEN "_" ELSE "") \o StyleChars(s, i + 1)

sanitize_style_name(name) ==
    LET value == StyleChars(Strip(name), 1)
    IN  IF value = "" THEN "STANDARD"
        ELSE IF Len(value) > 31 THEN SubSeq(value, 1, 31) ELSE value

\* DEFAULT_FONT_MAP
DEFAULT_FONT_MAP ==
    << <<"opengost type b tt", [style |-> StrValue("OpenGost_Type_B_TT")]>> >>

\* MappingManager(rules, material_layers, pattern_map) after _rebuild_aliases
MappingManager(rules, material_layers, pattern_map) ==
    [rules |-> rules, material_layers |-> material_layers,
     material_alias |-> AliasOf(material_layers),
     pattern_map |-> pattern_map, pattern_alias |-> AliasOf(pattern_map),
     font_map |-> DEFAULT_FONT_MAP, font_alias |-> AliasOf(DEFAULT_FONT_MAP)]

\* set_material_map
set_material_map(mgr, mapping) ==
    LET m == _normalize_material_map(mapping)
    IN  [mgr EXCEPT !.material_layers = m, !.material_alias = AliasOf(m)]

\* set_pattern_map
set_pattern_map(mgr, mapping) ==
    LET m == CombinedPatterns(mapping)
    IN  [mgr EXCEPT !.pattern_map = m, !.pattern_alias = AliasOf(m)]

\* extract_pattern_id: fill_value is a string; Some(id) or None
extract_pattern_id(fill_value) ==
    IF fill_value = "" THEN None
    ELSE LET value   == Strip(fill_value)
             inside0 == Strip(SubSeq(value, 5, Len(value) - 1))
             inside  == IF StartsWith(inside0, "#") THEN SubSeq(inside0, 2, Len(inside0))
                        ELSE inside0
         IN  IF ~StartsWith(Lower(value), "url(") THEN None
             ELSE IF inside = "" THEN None
             ELSE Some(Lower(inside))

\* resolve_pattern: pattern_id is None or Some(id); Some(entry) or None
resolve_pattern(mgr, pattern_id) ==
    IF IsNone(pattern_id) \/ The(pattern_id) = "" THEN None
    ELSE LET key == ODGet(mgr.pattern_alias, Lower(The(pattern_id)))
         IN  IF IsNone(key) THEN None ELSE ODGet(mgr.pattern_map, The(key))

\* resolve_font: font_family is None or Some(name); Some(entry) or None
resolve_font(mgr, font_family) ==
    IF IsNone(font_family) \/ The(font_family) = "" THEN None
    ELSE LET key   == ODGet(mgr.font_alias, Lower(The(font_family)))
             entry == ODGet(mgr.font_map, The(key))
         IN  IF IsNone(key) \/ The(key) = "" THEN None
             ELSE IF IsNone(entry) \/ DOMAIN The(entry) = {} THEN None
             ELSE IF Has(The(entry), "style") /\ The(entry)["style"].v # ""
                  THEN Some([The(entry) EXCEPT
                               !["style"] = StrValue(sanitize_style_name(@.v))])
             ELSE entry

\* normalize_color
normalize_color(value, fallback) == parse_color_spec(value, fallback)

(***************************************************************************)
(* mapping.py: the resolver.                                               *)
(***************************************************************************)
\* primitive.style.get(name): Some(value) or None
StyleGet(primitive, name) ==
    IF Has(primitive.style, name) THEN Some(primitive.style[name]) ELSE None

HexCandidate(v) ==
    ~IsNone(v) /\ Strip(The(v)) \notin {"none", "transparent"} /\ StartsWith(Strip(The(v)), "#")

\* _color_from_style: Ok(colour), or the ValueError of normalize_hex
_color_from_style(primitive) ==
    LET stroke == StyleGet(primitive, "stroke")
        fill   == StyleGet(primitive, "fill")
    IN  IF HexCandidate(stroke) THEN normalize_hex(Strip(The(stroke)))
        ELSE IF HexCandidate(fill) THEN normalize_hex(Strip(The(fill)))
        ELSE Ok("BYLAYER")

\* _lineweight_from_style: None or Some(float)
_lineweight_from_style(primitive) ==
    LET value == StyleGet(primitive, "stroke-width")
    IN  IF IsNone(value) \/ The(value) = "" THEN None
        ELSE LET v == Strip(The(value))
                 f == ParseFloat(v)
             IN  IF f.ok THEN Some(f.val) ELSE Some(parse_length(Some(v)))

\* _linetype_from_style
_linetype_from_style(primitive) ==
    LET dash == StyleGet(primitive, "stroke-dasharray")
    IN  IF ~IsNone(dash) /\ The(dash) # "" /\ The(dash) \notin {"none", "0"}
        THEN "DASHED" ELSE "Continuous"

\* _matches_selector
_matches_selector(primitive, selector0) ==
    LET selector == Strip(selector0)
    IN  IF selector = "" THEN FALSE
        ELSE IF Lower(selector) = "any" THEN TRUE
        ELSE IF ~Contains(selector, ":") THEN FALSE
        ELSE LET selector_type  == Lower(Strip(SplitHead(selector, ":")))
                 selector_value == Strip(SplitTail(selector, ":"))
                 name  == Strip(SplitHead(selector_value, "="))
                 value == Strip(SplitTail(selector_value, "="))
             IN  CASE selector_type = "class" ->
                        \E i \in 1..Len(primitive.classes) :
                            FnMatch(primitive.classes[i], selector_value)
                   [] selector_type = "tag" -> FnMatch(primitive.kind, selector_value)
                   [] selector_type = "id" ->
                        /\ ~IsNone(primitive.element_id)
                        /\ FnMatch(The(primitive.element_id), selector_value)
                   [] selector_type = "attr" /\ Contains(selector_value, "=") ->
                        /\ Has(primitive.attributes, name)
                        /\ FnMatch(primitive.attributes[name], value)
                   [] selector_type = "style" /\ Contains(selector_value, "=") ->
                        /\ Has(primitive.style, name)
                        /\ FnMatch(primitive.style[name], value)
                   [] OTHER -> FALSE

RECURSIVE SanitizeChars(_)
SanitizeChars(s) ==
    IF s = "" THEN ""
    ELSE (IF IsAlnum(Ch(s, 1)) \/ Ch(s, 1) \in {"-", "_"} THEN Ch(s, 1) ELSE "_")
         \o SanitizeChars(SubSeq(s, 2, Len(s)))

\* _sanitize_layer_name
_sanitize_layer_name(value) ==
    LET sanitized == SanitizeChars(Upper(value))
    IN  IF sanitized = "" THEN "MATERIAL" ELSE sanitized

\* the line weight a table entry gives, or the style's
ConfigLineweight(config, default_lineweight) ==
    IF ~Has(config, "lineweight") THEN default_lineweight
    ELSE LET lw_value == config["lineweight"]
         IN  IF lw_value.t = "num" THEN Some(lw_value.v)
             ELSE IF lw_value.t = "str"
                  THEN LET f == ParseFloat(lw_value.v)
                       IN  IF f.ok THEN Some(f.val)
                           ELSE Some(parse_length(Some(lw_value.v)))
             ELSE default_lineweight

\* the suffix after the first "-" of a material class (the class itself
\* when it has none)
MaterialSuffix(material_class) ==
    IF Contains(material_class, "-") THEN SplitTail(material_class, "-") ELSE material_class

\* the table key of a material class: by the whole class, then by its suffix
MaterialKey(mgr, material_class) ==
    LET key == ODGet(mgr.material_alias, Lower(material_class))
    IN  IF IsNone(key) /\ Contains(material_class, "-")
        THEN ODGet(mgr.material_alias, Lower(SplitTail(material_class, "-")))
        ELSE key

\* _material_attributes: Ok(LayerAttributes), or the ValueError of
\* _color_from_style
_material_attributes(mgr, material_class, primitive) ==
    LET key    == MaterialKey(mgr, material_class)
        config == IF IsNone(key) THEN None ELSE ODGet(mgr.material_layers, The(key))
        default_layer      == "MAT-" \o _sanitize_layer_name(MaterialSuffix(material_class))
        default_color      == _color_from_style(primitive)
        default_lineweight == _lineweight_from_style(primitive)
        default_linetype   == "Continuous"
    IN  IF ~default_color.ok THEN default_color
        ELSE IF IsNone(config)
        THEN Ok(LayerAttributes(default_layer, default_color.val, default_linetype,
                                default_lineweight))
        ELSE LET c == The(config)
             IN  Ok(LayerAttributes(
                    IF Has(c, "layer") THEN c["layer"].v ELSE default_layer,
                    The(parse_color_spec(IF Has(c, "color") THEN Some(c["color"].v) ELSE None,
                                         Some(default_color.val))),
                    IF Has(c, "linetype") THEN c["linetype"].v ELSE default_linetype,
                    ConfigLineweight(c, default_lineweight)))

\* [cls for cls in primitive.classes if cls.startswith("material-")]
MaterialClasses(primitive) ==
    SelectSeq(primitive.classes, LAMBDA cls : StartsWith(cls, "material-"))

RECURSIVE LastMatch(_, _, _)
\* a resolver in which the last matching rule wins
LastMatch(rules, primitive, i) ==
    LET later == IF i > Len(rules) THEN 0 ELSE LastMatch(rules, primitive, i + 1)
    IN  IF i > Len(rules) THEN 0
        ELSE IF later > 0 THEN later
        ELSE IF _matches_selector(primitive, rules[i].selector) THEN i
        ELSE 0

RECURSIVE FirstMatch(_, _, _)
\* the index of the first rule at or after i whose selector matches; 0 if none
FirstMatch(rules, primitive, i) ==
    IF i > Len(rules) THEN 0
    ELSE IF _matches_selector(primitive, rules[i].selector) THEN i
    ELSE FirstMatch(rules, primitive, i + 1)

\* a resolver in which the style's colour overrides the rule's
RuleAttributes_StyleFirst(rule, primitive) ==
    LET color == _color_from_style(primitive)
    IN  IF ~color.ok THEN color
        ELSE Ok(LayerAttributes(
                IF rule.layer # "" THEN rule.layer ELSE "0",
                IF color.val # "BYLAYER" THEN color.val ELSE rule.color,
                IF rule.linetype # "" THEN rule.linetype ELSE _linetype_from_style(primitive),
                IF ~IsNone(rule.lineweight_mm) THEN rule.lineweight_mm
                ELSE _lineweight_from_style(primitive)))

\* the attributes resolve builds from a matching rule
RuleAttributes(rule, primitive) ==
    LET color == IF rule.color # "" THEN Ok(rule.color) ELSE _color_from_style(primitive)
    IN  IF ~color.ok THEN color
        ELSE Ok(LayerAttributes(
                IF rule.layer # "" THEN rule.layer ELSE "0",
                color.val,
                IF rule.linetype # "" THEN rule.linetype ELSE _linetype_from_style(primitive),
                IF ~IsNone(rule.lineweight_mm) THEN rule.lineweight_mm
                ELSE _lineweight_from_style(primitive)))

\* the attributes resolve builds when no rule matches
FallbackAttributes(primitive) ==
    LET color == _color_from_style(primitive)
    IN  IF ~color.ok THEN color
        ELSE Ok(LayerAttributes("0", color.val, _linetype_from_style(primitive),
                                _lineweight_from_style(primitive)))

\* MappingManager.resolve: Ok(LayerAttributes), or the ValueError raised
\* by _color_from_style
resolve(mgr, primitive) ==
    LET material_classes == MaterialClasses(primitive)
        i == FirstMatch(mgr.rules, primitive, 1)
    IN  IF material_classes # <<>>
        THEN _material_attributes(mgr, material_classes[1], primitive)
        ELSE IF i > 0 THEN RuleAttributes(mgr.rules[i], primitive)
        ELSE FallbackAttributes(primitive)

\* MappingManager.default_rules
default_rules ==
    << MappingRule("class:IfcWall*", "A-WALL", "#000000", "Continuous", Some(Milli(350))),
       MappingRule("class:IfcSlab*", "A-SLAB", "#000000", "Continuous", Some(Milli(350))),
       MappingRule("class:IfcColumn*", "A-COLU", "#000000", "Continuous", Some(Milli(350))),
       MappingRule("class:IfcBeam*", "A-BEAM", "#000000", "Continuous", Some(Milli(350))),
       MappingRule("class:IfcDoor*", "A-DOOR", "#000000", "Continuous", Some(Milli(250))),
       MappingRule("class:IfcWindow*", "A-WIN", "#000000", "Continuous", Some(Milli(250))),
       MappingRule("class:PredefinedType-DIMENSION", "A-DIMS", "#000000", "Continuous", Some(Milli(180))),
       MappingRule("class:DIMENSION", "A-DIMS", "#000000", "Continuous", Some(Milli(180))),
       MappingRule("class:PredefinedType-TEXT", "A-ANNO", "#000000", "Continuous", Some(Milli(180))),
       MappingRule("class:annotation", "A-ANNO", "#000000", "Continuous", Some(Milli(180))),
       MappingRule("class:IfcAnnotation*", "A-ANNO", "#000000", "Continuous", Some(Milli(180))),
       MappingRule("class:GRID", "A-GRID", "#000000", "Continuous", Some(Milli(180))),
       MappingRule("class:PredefinedType-GRID", "A-GRID", "#000000", "Continuous", Some(Milli(180))),
       MappingRule("tag:text", "A-TEXT", "#000000", "Continuous", Some(Milli(180))),
       MappingRule("any", "0", "BYLAYER", "Continuous", None) >>

\* the default catch-all rule, the last of default_rules
CatchAllRule == default_rules[Len(default_rules)]

\* MappingManager.with_defaults() with no style_mapping.json on disk
with_defaults == MappingManager(default_rules, <<>>, CombinedPatterns(<<>>))

(***************************************************************************)
(* models.py: DXF attributes.                                              *)
(***************************************************************************)
\* round(num / den) as Python rounds a float: to the nearest integer, a tie
\* to the even one (num >= 0, den > 0)
RoundHalfEven(num, den) ==
    LET q == num \div den
        r == num % den
    IN  IF 2 * r < den THEN q
        ELSE IF 2 * r > den THEN q + 1
        ELSE IF q % 2 = 0 THEN q ELSE q + 1

\* lineweight_to_hundredths_mm: int(round(weight_mm * 100))
lineweight_to_hundredths_mm(weight_mm) ==
    IF weight_mm >= 0 THEN RoundHalfEven(weight_mm, FixedOne \div 100)
    ELSE 0 - RoundHalfEven(0 - weight_mm, FixedOne \div 100)

\* LayerAttributes.to_dxf_attribs: Ok(dict), or the ValueError of parse_rgb
to_dxf_attribs(attrs) ==
    LET has_color    == attrs.color # "" /\ Upper(attrs.color) # "BYLAYER"
        has_linetype == attrs.linetype # "" /\ Upper(attrs.linetype) # "BYLAYER"
        has_weight   == ~IsNone(attrs.lineweight_mm)
        rgb  == parse_rgb(attrs.color)
        keys == {"layer"} \cup (IF has_color THEN {"true_color"} ELSE {})
                          \cup (IF has_linetype THEN {"linetype"} ELSE {})
                          \cup (IF has_weight THEN {"lineweight"} ELSE {})
    IN  IF has_color /\ ~rgb.ok THEN Raised("ValueError")
        ELSE Ok([k \in keys |->
                    CASE k = "layer" -> attrs.layer
                      [] k = "true_color" -> rgb.val
                      [] k = "linetype" -> attrs.linetype
                      [] k = "lineweight" ->
                            lineweight_to_hundredths_mm(The(attrs.lineweight_mm))])

(***************************************************************************)
(* dxf_writer.py: layers.                                                  *)
(***************************************************************************)
\* ACI_TO_RGB, as <<aci, r, g, b>> in the dict's order
ACI_TO_RGB ==
    << <<1, 255, 0, 0>>, <<2, 255, 255, 0>>, <<3, 0, 255, 0>>, <<4, 0, 255, 255>>,
       <<5, 0, 0, 255>>, <<6, 255, 0, 255>>, <<7, 255, 255, 255>>,
       <<8, 128, 128, 128>>, <<9, 192, 192, 192>> >>

\* the squared distance of an RGB triple to a palette entry
AciDist(rgb, e) ==
    (rgb[1] - e[2]) * (rgb[1] - e[2]) + (rgb[2] - e[3]) * (rgb[2] - e[3])
    + (rgb[3] - e[4]) * (rgb[3] - e[4])

\* rgb_to_aci: an exact palette match, else the first entry at the least
\* distance
rgb_to_aci(rgb) ==
    LET n == Len(ACI_TO_RGB)
        best == CHOOSE i \in 1..n :
                    /\ \A j \in 1..n : AciDist(rgb, ACI_TO_RGB[i]) <= AciDist(rgb, ACI_TO_RGB[j])
                    /\ \A j \in 1..(i - 1) :
                          AciDist(rgb, ACI_TO_RGB[j]) > AciDist(rgb, ACI_TO_RGB[i])
    IN  ACI_TO_RGB[best][1]

\* ezdxf_colors.int2rgb
int2rgb(n) == <<n \div 65536, (n \div 256) % 256, n % 256>>

\* str.isdigit for the characters of the model
IsDigitString(s) == s # "" /\ AllDigits(s)

\* the layer table of ezdxf.new("R2013")
NewDocLayers ==
    << [name |-> "0", color |-> 7, linetype |-> "Continuous"],
       [name |-> "Defpoints", color |-> 7, linetype |-> "Continuous"] >>

\* layer_name in doc.layers (an ezdxf table looks names up ignoring case)
LayerExists(layers, layer_name) ==
    \E i \in 1..Len(layers) : Lower(layers[i].name) = Lower(layer_name)

\* the colour index ensure_layer gives a new layer
LayerColorIndex(attrs) ==
    IF IsDigitString(attrs.color) THEN DigitsVal(attrs.color)
    ELSE IF StartsWith(attrs.color, "#")
         THEN LET rgb == parse_rgb(attrs.color)
              IN  IF rgb.ok THEN rgb_to_aci(int2rgb(rgb.val)) ELSE 7
    ELSE 7

\* the layer record ensure_layer adds
LayerRecord(layer_name, attrs) ==
    [name |-> layer_name, color |-> LayerColorIndex(attrs),
     linetype |-> IF attrs.linetype # "" THEN attrs.linetype ELSE "Continuous"]

\* ensure_layer without its early return: a layer that exists takes the new
\* attributes
ensure_layer_overwriting(layers, layer_name, attrs) ==
    IF LayerExists(layers, layer_name)
    THEN [i \in 1..Len(layers) |->
            IF Lower(layers[i].name) = Lower(layer_name)
            THEN LayerRecord(layers[i].name, attrs) ELSE layers[i]]
    ELSE Append(layers, LayerRecord(layer_name, attrs))

\* ensure_layer: the layer table afterwards
ensure_layer(layers, layer_name, attrs) ==
    IF LayerExists(layers, layer_name) THEN layers
    ELSE Append(layers, LayerRecord(layer_name, attrs))

(***************************************************************************)
(* dxf_writer.py: entities.  An entity of the modelspace is a record; the  *)
(* writer's helpers return what they add: the entities, the log lines, the *)
(* count they return and the exception they leave by, if any.              *)
(***************************************************************************)
Outcome(added, log, count, raised) ==
    [added |-> added, log |-> log, count |-> count, raised |-> raised]

\* the entity after _apply_entity_color
_apply_entity_color(entity, color_spec, fallback_attrs) ==
    IF IsNone(color_spec) \/ The(color_spec) = ""
    THEN IF Has(fallback_attrs, "true_color")
         THEN [entity EXCEPT !.rgb = Some(int2rgb(fallback_attrs["true_color"]))]
         ELSE IF Has(fallback_attrs, "color")
              THEN [entity EXCEPT !.color = Some(fallback_attrs["color"])]
         ELSE entity
    ELSE LET spec == The(color_spec)
             rgb  == parse_rgb(spec)
         IN  IF Upper(spec) \in {"BYLAYER", "BYBLOCK"} THEN entity
             ELSE IF IsDigitString(spec)
                  THEN IF 1 <= DigitsVal(spec) /\ DigitsVal(spec) <= 255
                       THEN [entity EXCEPT !.color = Some(DigitsVal(spec))]
                       ELSE entity
             ELSE IF StartsWith(spec, "#") /\ rgb.ok
                  THEN [entity EXCEPT !.rgb = Some(int2rgb(rgb.val))]
             ELSE entity

\* _write_line
_write_line(points, attrs) ==
    IF Len(points) # 2 THEN Outcome(<<>>, <<>>, 0, None)
    ELSE Outcome(<< [type |-> "LINE", start |-> points[1], end |-> points[2],
                     attribs |-> attrs] >>,
                 <<"LINE">>, 1, None)

\* style.get(name) or ""
StyleOrEmpty(style, name) == IF Has(style, name) THEN style[name] ELSE ""

\* the stroke width _write_polyline reads: None, or Some(number)
StrokeWidth(style) ==
    LET raw == StyleOrEmpty(style, "stroke-width")
        f   == ParseFloat(raw)
    IN  IF raw = "" THEN None
        ELSE IF f.ok THEN Some(f.val)
        ELSE Some(parse_length(Some(raw)))

\* any(cls.startswith("material-") for cls in classes)
AnyMaterialClass(classes) ==
    \E i \in 1..Len(classes) : StartsWith(classes[i], "material-")

\* name in classes
InClasses(name, classes) == \E i \in 1..Len(classes) : classes[i] = name

\* the hatch msp.add_hatch creates, before its fill is set
NewHatch(layer) ==
    [type |-> "HATCH", layer |-> IF layer = "" THEN "0" ELSE layer, fill |-> [kind |-> "unset"],
     rgb |-> None, color |-> None, paths |-> <<>>]

\* float(info.get(field, default) or default) of a pattern entry
PatternFloat(info, field, default) ==
    IF ~Has(info, field) THEN Ok(default)
    ELSE IF info[field].t = "num"
         THEN Ok(IF info[field].v = 0 THEN default ELSE info[field].v)
    ELSE IF info[field].t = "str" THEN ParseFloat(info[field].v)
    ELSE Raised("TypeError")

\* the fill the hatch gets; Ok(fill), or the exception of float()
HatchFill(pattern_info, pattern_rejected) ==
    IF IsNone(pattern_info) \/ DOMAIN The(pattern_info) = {} THEN Ok([kind |-> "solid"])
    ELSE LET info  == The(pattern_info)
             solid == Has(info, "solid") /\
                        \/ info["solid"].t = "bool" /\ info["solid"].v
                        \/ info["solid"].t = "str" /\
                              Lower(info["solid"].v) \in {"true", "1", "yes", "y"}
             name  == IF Has(info, "pattern") /\ info["pattern"].t = "str"
                      THEN info["pattern"].v ELSE ""
             scale == PatternFloat(info, "scale", FixedOne)
             angle == PatternFloat(info, "angle", 0)
         IN  IF solid \/ name = "" THEN Ok([kind |-> "solid"])
             ELSE IF ~scale.ok THEN scale
             ELSE IF ~angle.ok THEN angle
             ELSE IF pattern_rejected THEN Ok([kind |-> "solid"])
             ELSE Ok([kind |-> "pattern", name |-> name,
                      scale |-> scale.val, angle |-> angle.val])

\* stroke_value in {"", "none", "transparent"}
StrokeAbsent(stroke_value) == stroke_value \in {"", "none", "transparent"}

\* stroke_width is not None and stroke_width <= 0.1
StrokeThin(stroke_width) == ~IsNone(stroke_width) /\ The(stroke_width) <= Milli(100)

\* the return-0 test of an open projection polyline, testing the width alone
ProjectionSkipped_WidthOnly(closed, material_class, classes, stroke_value, stroke_width) ==
    /\ ~closed /\ material_class /\ InClasses("projection", classes)
    /\ StrokeThin(stroke_width)

\* the return-0 test of an open projection polyline
ProjectionSkipped(closed, material_class, classes, stroke_value, stroke_width) ==
    /\ ~closed /\ material_class /\ InClasses("projection", classes)
    /\ (StrokeAbsent(stroke_value) \/ StrokeThin(stroke_width))

\* skip_boundary
SkipBoundary(has_fill, material_class, classes, stroke_value, stroke_width) ==
    /\ has_fill /\ material_class /\ ~InClasses("cut", classes)
    /\ (StrokeAbsent(stroke_value) \/ StrokeThin(stroke_width))

\* the LWPOLYLINE _write_polyline adds
LwPolyline(points, closed, attrs) ==
    LET poly_points == IF closed /\ points[1] = points[Len(points)] /\ Len(points) > 1
                       THEN SubSeq(points, 1, Len(points) - 1) ELSE points
    IN  [type |-> "LWPOLYLINE", points |-> poly_points, closed |-> closed,
         attribs |-> attrs]

\* _write_polyline; pattern_rejected: the sink refuses the pattern name
_write_polyline(mgr, primitive, attrs, pattern_rejected) ==
    LET points         == primitive.points
        closed         == Has(primitive.extra, "closed") /\ primitive.extra["closed"]
        fill_raw_value == Strip(StyleOrEmpty(primitive.style, "fill"))
        fill_value     == Lower(fill_raw_value)
        has_fill       == closed /\ fill_value \notin {"", "none", "transparent"}
        pattern_info   == IF has_fill
                          THEN resolve_pattern(mgr, extract_pattern_id(fill_value))
                          ELSE None
        color_is_text  == IsNone(pattern_info) \/ ~Has(The(pattern_info), "color")
                          \/ The(pattern_info)["color"].t = "str"
        pattern_color_spec ==
            IF IsNone(pattern_info) \/ ~Has(The(pattern_info), "color") THEN None
            ELSE normalize_color(Some(The(pattern_info)["color"].v), None)
        stroke_value   == Lower(Strip(StyleOrEmpty(primitive.style, "stroke")))
        stroke_width   == StrokeWidth(primitive.style)
        material_class == AnyMaterialClass(primitive.classes)
        fill           == HatchFill(pattern_info, pattern_rejected)
        color_spec     == IF ~IsNone(pattern_color_spec) /\ The(pattern_color_spec) # ""
                          THEN pattern_color_spec
                          ELSE normalize_color(Some(fill_raw_value), None)
        hatch          == [_apply_entity_color(NewHatch(attrs["layer"]), color_spec, attrs)
                              EXCEPT !.fill = fill.val, !.paths = <<points>>]
        hatches        == IF has_fill THEN <<hatch>> ELSE <<>>
        hatch_log      == IF has_fill THEN <<"HATCH">> ELSE <<>>
        skip_boundary  == SkipBoundary(has_fill, material_class, primitive.classes,
                                       stroke_value, stroke_width)
    IN  IF Len(points) < 2 THEN Outcome(<<>>, <<>>, 0, None)
        ELSE IF ~color_is_text THEN Outcome(<<>>, <<>>, 0, Some("AttributeError"))
        ELSE IF ProjectionSkipped(closed, material_class, primitive.classes,
                                  stroke_value, stroke_width)
             THEN Outcome(<<>>, <<>>, 0, None)
        ELSE IF has_fill /\ ~fill.ok
             THEN Outcome(<<NewHatch(attrs["layer"])>>, <<>>, 0, Some(fill.val))
        ELSE IF skip_boundary THEN Outcome(hatches, hatch_log, Len(hatches), None)
        ELSE Outcome(Append(hatches, LwPolyline(points, closed, attrs)),
                     Append(hatch_log, "LWPOLYLINE"), Len(hatches) + 1, None)

\* abs(x)
Abs(x) == IF x < 0 THEN 0 - x ELSE x

\* max(a, b)
Max(a, b) == IF a >= b THEN a ELSE b

\* math.isclose(a, b, rel_tol=1e-3)
IsClose(a, b) == Abs(a - b) <= Max(Abs(a), Abs(b)) \div 1000

\* extra.get(name, 0.0)
ExtraNumber(extra, name) == IF Has(extra, name) THEN extra[name] ELSE 0

\* the ratio taken the other way round: radius_x / radius_y
AxisRatio_Inverted(radius_x, radius_y) ==
    IF radius_x # 0 THEN <<radius_x, radius_y>> ELSE <<1, 1>>

\* radius_y / radius_x if radius_x else 1.0, as the fraction <<num, den>>
AxisRatio(radius_x, radius_y) ==
    IF radius_x # 0 THEN <<radius_y, radius_x>> ELSE <<1, 1>>

\* the ELLIPSE both circle and ellipse writers add
EllipseEntity(center, radius_x, radius_y, attrs) ==
    [type |-> "ELLIPSE", center |-> center, major_axis |-> <<radius_x, 0>>,
     ratio |-> AxisRatio(radius_x, radius_y), attribs |-> attrs]

\* _write_circle
_write_circle(primitive, attrs) ==
    LET radius_x == ExtraNumber(primitive.extra, "radius_x")
        radius_y == ExtraNumber(primitive.extra, "radius_y")
    IN  IF Len(primitive.points) = 0 THEN Outcome(<<>>, <<>>, 0, Some("IndexError"))
        ELSE IF IsClose(radius_x, radius_y)
             THEN Outcome(<< [type |-> "CIRCLE", center |-> primitive.points[1],
                              radius |-> radius_x, attribs |-> attrs] >>,
                          <<"CIRCLE">>, 1, None)
        ELSE Outcome(<<EllipseEntity(primitive.points[1], radius_x, radius_y, attrs)>>,
                     <<"ELLIPSE">>, 1, None)

\* _write_ellipse
_write_ellipse(primitive, attrs) ==
    LET radius_x == ExtraNumber(primitive.extra, "radius_x")
        radius_y == ExtraNumber(primitive.extra, "radius_y")
    IN  IF Len(primitive.points) = 0 THEN Outcome(<<>>, <<>>, 0, Some("IndexError"))
        ELSE Outcome(<<EllipseEntity(primitive.points[1], radius_x, radius_y, attrs)>>,
                     <<"ELLIPSE">>, 1, None)

\* _font_size_to_height
_font_size_to_height(style) ==
    LET value  == StyleOrEmpty(style, "font-size")
        length == parse_length(Some(value))
    IN  IF value = "" THEN Milli(3500)
        ELSE IF length <= 0 THEN Milli(3500)
        ELSE length

\* the style table of ezdxf.new("R2013")
NewDocStyles == {"Standard"}

\* style_name in doc.styles (an ezdxf table looks names up ignoring case)
StyleExists(styles, style_name) == \E n \in styles : Lower(n) = Lower(style_name)

\* _ensure_text_style: the name it returns (None or Some), the style table
\* and the style cache afterwards.  registration: what doc.styles.add does,
\* "ok", "fallback" (the first add raises, the one with arial.ttf succeeds)
\* or "fail" (both raise)
_ensure_text_style(mgr, styles, cache, font_family, registration) ==
    LET font_entry == resolve_font(mgr, font_family)
        entry_style == IF ~IsNone(font_entry) /\ Has(The(font_entry), "style")
                       THEN The(font_entry)["style"].v ELSE ""
        raw_name   == IF entry_style # "" THEN entry_style
                      ELSE sanitize_style_name(The(font_family))
        style_name == sanitize_style_name(raw_name)
        cache_key  == Upper(style_name)
        keep       == [name |-> None, styles |-> styles, cache |-> cache]
    IN  IF entry_style = "" /\ (IsNone(font_family) \/ The(font_family) = "") THEN keep
        ELSE IF Upper(style_name) = "STANDARD" THEN [keep EXCEPT !.name = Some("STANDARD")]
        ELSE IF cache_key \in cache THEN [keep EXCEPT !.name = Some(style_name)]
        ELSE IF StyleExists(styles, style_name)
             THEN [name |-> Some(style_name), styles |-> styles,
                   cache |-> cache \cup {cache_key}]
        ELSE IF registration = "fail"
             THEN [name |-> Some("STANDARD"), styles |-> styles,
                   cache |-> cache \cup {"STANDARD"}]
        ELSE [name |-> Some(style_name), styles |-> styles \cup {style_name},
              cache |-> cache \cup {cache_key}]

\* a product of two fixed-point numbers (exact when either is whole; else
\* cut to a multiple of 1/FixedOne)
MulAbs(a, b) ==
    (a \div FixedOne) * b
    + (((a % FixedOne) \div (FixedOne \div 1000)) * (b \div (FixedOne \div 1000)) * 72) \div 25

MulFixed(a, b) ==
    IF (a < 0) = (b < 0) THEN MulAbs(Abs(a), Abs(b)) ELSE 0 - MulAbs(Abs(a), Abs(b))

\* content.replace("\n", "\\P")
RECURSIVE MTextContent(_, _)
MTextContent(content, i) ==
    IF i > Len(content) THEN ""
    ELSE (IF Ch(content, i) = "\n" THEN "\\P" ELSE Ch(content, i))
         \o MTextContent(content, i + 1)

\* float(extra.get(name, default) or default)
ExtraFloat(extra, name, default) ==
    IF Has(extra, name) /\ extra[name] # 0 THEN extra[name] ELSE default

\* the horizontal alignment _write_text sets: None when it leaves the
\* entity alone.  Only a TEXT entity has the halign attribute.
TextHAlign(anchor, is_text) ==
    IF ~is_text \/ IsNone(anchor) THEN None
    ELSE IF Lower(The(anchor)) \in {"middle", "center"} THEN Some(1)
    ELSE IF Lower(The(anchor)) \in {"end", "right"} THEN Some(2)
    ELSE None

\* _write_text: the outcome, with the style table and the style cache
\* afterwards
_write_text(mgr, styles, cache, primitive, attrs, registration) ==
    LET extra    == primitive.extra
        content  == IF Has(extra, "text") THEN extra["text"] ELSE ""
        height   == MulFixed(_font_size_to_height(primitive.style),
                             Abs(ExtraFloat(extra, "text_scale", FixedOne)))
        rotation == ExtraFloat(extra, "rotation_deg", 0)
        anchor   == IF Has(extra, "text_anchor") THEN extra["text_anchor"] ELSE None
        font_family == IF Has(extra, "font_family") THEN Some(extra["font_family"]) ELSE None
        ensured  == _ensure_text_style(mgr, styles, cache, font_family, registration)
        is_text  == ~Contains(content, "\n")
        halign   == TextHAlign(anchor, is_text)
        entity   == [type |-> IF is_text THEN "TEXT" ELSE "MTEXT",
                     text |-> IF is_text THEN content ELSE MTextContent(content, 1),
                     attribs |-> attrs, height |-> height, style |-> ensured.name,
                     insert |-> primitive.points[1], rotation |-> rotation,
                     halign |-> halign,
                     align_point |-> IF IsNone(halign) THEN None
                                     ELSE Some(primitive.points[1])]
    IN  IF Len(primitive.points) = 0
        THEN [out |-> Outcome(<<>>, <<>>, 0, Some("IndexError")),
              styles |-> styles, cache |-> cache]
        ELSE IF content = ""
             THEN [out |-> Outcome(<<>>, <<>>, 0, None), styles |-> styles, cache |-> cache]
        ELSE [out |-> Outcome(<<entity>>, <<"TEXT">>, 1, None),
              styles |-> ensured.styles, cache |-> ensured.cache]

(***************************************************************************)
(* svg_loader.py: class accumulation.                                      *)
(***************************************************************************)
RECURSIVE MergeFrom(_, _, _)
MergeFrom(merged, current, i) ==
    IF i > Len(current) THEN merged
    ELSE MergeFrom(IF \E j \in 1..Len(merged) : merged[j] = current[i]
                   THEN merged ELSE Append(merged, current[i]),
                   current, i + 1)

\* a merge in which the element's own classes come first
merge_classes_own_first(inherited, current) ==
    MergeFrom(MergeFrom(<<>>, current, 1), inherited, 1)

\* merge_classes: dict.fromkeys(inherited), then setdefault of each current
merge_classes(inherited, current) == MergeFrom(MergeFrom(<<>>, inherited, 1), current, 1)

(***************************************************************************)
(* The state.                                                              *)
(***************************************************************************)
VARIABLES
    mapping,    \* the MappingManager of the PipelineController
    rphase,     \* resolver runs: "config", "ready" or "resolved"
    rinherited, \* the classes the last resolved primitive inherited
    rown,       \* the classes of its own element
    rprim,      \* the last primitive handed to resolve
    rresult,    \* what resolve returned for it (Ok(attrs) or Raised)
    wpc,        \* DxfWriter.write: "idle", "loop", "done" or "aborted"
    wdoc,       \* document.primitives
    wi,         \* the position of the loop in document.primitives
    layers,     \* doc.layers
    styles,     \* doc.styles
    style_cache, \* DxfWriter._style_cache
    msp,        \* the modelspace: [src, ent] records, src the primitive's index
    written,
    log_messages,
    warnings,   \* the indexes of the primitives warned about
    layers_created,
    self_mapping, \* DxfWriter.mapping: None or Some(manager)
    saved,      \* doc.saveas has written the file
    result,     \* the ConversionResult returned: None or Some
    lpc,        \* SvgLoader.load: "idle", "running", "done" or "failed"
    fs,         \* the SVG files that exist: path -> root element
    frames,     \* the calls of _load_internal in progress, innermost last
    visited,    \* the visited set of the load
    loaded,     \* what load returned: None, Some(Ok(document)) or Some(Raised)
    fcall,      \* a call of a module-level function: None or Some([fn, args])
    fret        \* what the call returned: None or Some(value)

rvars == <<rphase, rinherited, rown, rprim, rresult>>
wvars == <<wpc, wdoc, wi, layers, styles, style_cache, msp, written, log_messages,
           warnings, layers_created, self_mapping, saved, result>>
lvars == <<lpc, fs, frames, visited, loaded>>
fvars == <<fcall, fret>>
vars == <<mapping, rvars, wvars, lvars, fvars>>

\* no resolver run
ResolveOff ==
    /\ rphase = "off"
    /\ rinherited = <<>>
    /\ rown = <<>>
    /\ rprim = None
    /\ rresult = None

\* no call of a module-level function
NoCall == fcall = None /\ fret = None

\* a loader that has not been asked to load, and no files
LoaderIdle ==
    /\ lpc = "idle"
    /\ fs = <<>>
    /\ frames = <<>>
    /\ visited = {}
    /\ loaded = None

\* a writer that has not been asked to write
WriterIdle ==
    /\ wpc = "idle"
    /\ wi = 0
    /\ layers = <<>>
    /\ styles = {}
    /\ style_cache = {}
    /\ msp = <<>>
    /\ written = 0
    /\ log_messages = <<>>
    /\ warnings = <<>>
    /\ layers_created = {}
    /\ self_mapping = None
    /\ saved = FALSE
    /\ result = None

(***************************************************************************)
(* The inputs of the resolver runs.                                        *)
(***************************************************************************)
\* all sequences over S of length at most n
RECURSIVE SeqsUpTo(_, _)
SeqsUpTo(S, n) ==
    IF n = 0 THEN {<<>>}
    ELSE LET shorter == SeqsUpTo(S, n - 1)
         IN  shorter \cup {Append(q, x) : q \in shorter, x \in S}

ClassPool == {"material-steel", "material-Oak tree", "IfcWall"}

\* the classes a primitive inherits from its ancestors
InheritedPool == {<<>>, <<"material-steel">>, <<"IfcWall">>, <<"material-glass", "cut">>}

RulePool ==
    { CatchAllRule,
      default_rules[1],
      MappingRule("tag:text", "", "", "", None),
      MappingRule(" Class : material-* ", "M-RULE", "BYBLOCK", "DASHED", Some(0)) }

RuleLists == SeqsUpTo(RulePool, MaxRules)

\* raw material tables, as set_material_map receives them
MaterialMaps ==
    { <<>>,
      << <<"steel", StrValue("   ")>> >>,
      << <<" Steel ", DictValue([layer |-> StrValue("S-1"), color |-> StrValue("red"),
                                 lineweight |-> StrValue("0.5")])>>,
         <<"steel", DictValue([color |-> StrValue("byblock"), layer |-> StrValue("")])>> >>,
      << <<"material-steel", DictValue([color |-> StrValue("#abc"),
                                        linetype |-> StrValue("HIDDEN"),
                                        lineweight |-> NumValue(Milli(130))])>>,
         <<"", StrValue("NOKEY")>> >> }

ResolveStyles ==
    { EmptyDict,
      [stroke |-> "#f00"] @@ ("stroke-width" :> "0.25") @@ ("stroke-dasharray" :> "4 2"),
      [stroke |-> "#12", fill |-> "#808080"] @@ ("stroke-width" :> "0.3px") }

ResolveKinds == {"line", "text"}

(***************************************************************************)
(* The resolver runs: configure the manager, then resolve one primitive.   *)
(***************************************************************************)
ResolveInit ==
    /\ mapping = with_defaults
    /\ rphase = "config"
    /\ rinherited = <<>>
    /\ rown = <<>>
    /\ rprim = None
    /\ rresult = None
    /\ wdoc = <<>>
    /\ WriterIdle
    /\ LoaderIdle
    /\ NoCall

\* PipelineController.convert(rules=...): the rule list is replaced
SetRules ==
    /\ rphase = "config"
    /\ \E rules \in RuleLists : mapping' = [mapping EXCEPT !.rules = rules]
    /\ rphase' = "materials"
    /\ UNCHANGED <<rinherited, rown, rprim, rresult, wvars, lvars, fvars>>

\* PipelineController.update_mapping_config -> set_material_map
SetMaterialMap ==
    /\ rphase \in {"config", "materials"}
    /\ \E m \in MaterialMaps : mapping' = set_material_map(mapping, m)
    /\ rphase' = "ready"
    /\ UNCHANGED <<rinherited, rown, rprim, rresult, wvars, lvars, fvars>>

\* the loader builds a primitive whose classes are merge_classes(inherited,
\* own), and the writer hands it to resolve
DoResolve ==
    /\ rphase = "ready"
    /\ \E inh \in InheritedPool, own \in SeqsUpTo(ClassPool, MaxClasses),
          kind \in ResolveKinds, style \in ResolveStyles :
          LET p == SvgPrimitive(kind, <<>>, style, merge_classes(inh, own),
                                IF kind = "line" THEN Some("w1") ELSE None,
                                EmptyDict, EmptyDict)
          IN  /\ rinherited' = inh
              /\ rown' = own
              /\ rprim' = Some(p)
              /\ rresult' = Some(resolve(mapping, p))
    /\ rphase' = "resolved"
    /\ UNCHANGED <<mapping, wvars, lvars, fvars>>

ResolveNext == SetRules \/ SetMaterialMap \/ DoResolve

SpecResolve == ResolveInit /\ [][ResolveNext]_vars

(***************************************************************************)
(* Claims about the resolver (under SpecResolve).                          *)
(***************************************************************************)
Resolved == rphase = "resolved"
RPrim == The(rprim)
RRes == The(rresult)
SameResult(a, b) == a.ok = b.ok /\ (a.ok => a.val = b.val)
HasMaterialClass(classes) ==
    \E i \in 1..Len(classes) : StartsWith(classes[i], "material-")
\* the indices of the rules whose selector matches the resolved primitive
MatchingRules == {i \in 1..Len(mapping.rules) : _matches_selector(RPrim, mapping.rules[i].selector)}

\* C5: whatever the rule list and the material table (a blank bare layer
\* string included), the attributes resolve returns have a non-empty layer
\* name and a non-empty colour.
C5_LayerAndColourNonEmpty ==
    (Resolved /\ RRes.ok) => (RRes.val.layer # "" /\ RRes.val.color # "")

\* C6 as stated: with only the default catch-all rule, every primitive
\* resolves to layer "0" and colour BYLAYER.
C6_CatchAllEveryPrimitive ==
    (Resolved /\ mapping.rules = <<CatchAllRule>>)
        => (RRes.ok /\ RRes.val.layer = "0" /\ RRes.val.color = "BYLAYER")

\* C6 amended: with only the default catch-all rule, every primitive that
\* carries no material class resolves to layer "0" and colour BYLAYER,
\* whatever its kind, other classes, id and style.
C6_CatchAllNonMaterial ==
    (Resolved /\ mapping.rules = <<CatchAllRule>> /\ ~HasMaterialClass(RPrim.classes))
        => (RRes.ok /\ RRes.val.layer = "0" /\ RRes.val.color = "BYLAYER")

\* a text primitive with a stroke and a class that is no material class has
\* been resolved under the catch-all rule alone
C6_Witness ==
    /\ Resolved /\ mapping.rules = <<CatchAllRule>>
    /\ ~HasMaterialClass(RPrim.classes) /\ RPrim.classes # <<>>
    /\ RPrim.kind = "text" /\ Has(RPrim.style, "stroke")
    /\ RRes.ok /\ RRes.val.layer = "0"

FirstMaterialOf(classes) ==
    classes[CHOOSE i \in 1..Len(classes) :
                /\ StartsWith(classes[i], "material-")
                /\ \A j \in 1..(i - 1) : ~StartsWith(classes[j], "material-")]

\* C8: a primitive with a material class resolves by its first material
\* class alone, the rule list being ignored even when a rule matches; and
\* as classes accumulate parent-first, that class is the first material class
\* inherited from the ancestors (or the referencing image element) when there
\* is one, and the element's own first material class only otherwise.
C8_FirstMaterialClassOnly ==
    (Resolved /\ HasMaterialClass(RPrim.classes))
        => LET material == IF HasMaterialClass(rinherited)
                           THEN FirstMaterialOf(rinherited) ELSE FirstMaterialOf(rown)
           IN  SameResult(RRes, _material_attributes([mapping EXCEPT !.rules = <<>>],
                                                     material, RPrim))

\* the inherited and the own classes name different materials, a rule other
\* than the catch-all matches, and the inherited material decides
C8_Witness ==
    /\ Resolved
    /\ HasMaterialClass(rinherited) /\ HasMaterialClass(rown)
    /\ FirstMaterialOf(rinherited) # FirstMaterialOf(rown)
    /\ \E i \in MatchingRules : Lower(Strip(mapping.rules[i].selector)) # "any"
    /\ RRes.ok /\ RRes.val.layer = "MAT-GLASS"

\* the first material class of the resolved primitive has no entry in the
\* material table
NoMaterialEntry ==
    /\ HasMaterialClass(RPrim.classes)
    /\ \E key \in {MaterialKey(mapping, FirstMaterialOf(RPrim.classes))} :
          IsNone(key) \/ IsNone(ODGet(mapping.material_layers, The(key)))

\* C27: for a primitive whose first material class has no entry in the
\* material table, resolve returns the layer MAT-<suffix, upper case and
\* sanitised> and the colour, line type and line weight of the style: the
\* line type DASHED when stroke-dasharray is there and not none or 0,
\* Continuous otherwise
C27_MissingMaterialFromStyle ==
    (Resolved /\ NoMaterialEntry /\ _color_from_style(RPrim).ok) =>
        /\ RRes.ok
        /\ RRes.val.layer
              = "MAT-" \o _sanitize_layer_name(MaterialSuffix(FirstMaterialOf(RPrim.classes)))
        /\ RRes.val.color = _color_from_style(RPrim).val
        /\ RRes.val.lineweight_mm = _lineweight_from_style(RPrim)
        /\ RRes.val.linetype =
              (IF Has(RPrim.style, "stroke-dasharray")
                  /\ RPrim.style["stroke-dasharray"] \notin {"", "none", "0"}
               THEN "DASHED" ELSE "Continuous")


(***************************************************************************)
(* The inputs of the writer runs.                                          *)
(***************************************************************************)
Triangle == << <<0, 0>>, <<4, 0>>, <<0, 3>>, <<0, 0>> >>

WritePoints == {Triangle, << <<0, 0>>, <<4, 0>> >>, << <<1, 1>> >>}

WriteClasses ==
    { <<>>, <<"material-concrete">>, <<"material-concrete", "cut">>,
      <<"material-steel", "projection">>, <<"projection">> }

WriteFills == {"", "none", "#808080", "url(#steel)", "url(#hatch7)"}

WriteStrokes == {"", "none", "#000000"}

WriteWidths == {"", "0.05", "0.1", "0.25", "thin"}

\* a style dict with the keys whose value is given
StyleOf(fill, stroke, width) ==
    [k \in (IF fill # "" THEN {"fill"} ELSE {}) \cup (IF stroke # "" THEN {"stroke"} ELSE {})
           \cup (IF width # "" THEN {"stroke-width"} ELSE {}) |->
        CASE k = "fill" -> fill [] k = "stroke" -> stroke [] k = "stroke-width" -> width]

\* the polylines _create_polyline, _create_polygon, _create_rect and
\* _create_path build
PolylinePool ==
    { SvgPrimitive("polyline", pts, StyleOf(fill, stroke, width), classes, None,
                   EmptyDict, [closed |-> closed]) :
        pts \in WritePoints, closed \in BOOLEAN, classes \in WriteClasses,
        fill \in WriteFills, stroke \in WriteStrokes, width \in WriteWidths }

\* primitives of the other kinds
OtherPool ==
    { SvgPrimitive("line", << <<0, 0>>, <<4, 0>> >>, [stroke |-> "#ff0000"], <<>>,
                   Some("axis"), EmptyDict, EmptyDict),
      SvgPrimitive("line", << <<0, 0>> >>, EmptyDict, <<>>, None, EmptyDict, EmptyDict),
      SvgPrimitive("line", << <<0, 0>>, <<4, 0>> >>, [stroke |-> "#12"], <<>>,
                   None, EmptyDict, EmptyDict),
      SvgPrimitive("circle", << <<2, 2>> >>, EmptyDict, <<"IfcWall">>, None, EmptyDict,
                   [radius_x |-> Milli(2000), radius_y |-> Milli(2000)]),
      SvgPrimitive("circle", << <<2, 2>> >>, EmptyDict, <<>>, None, EmptyDict,
                   [radius_x |-> Milli(1000), radius_y |-> Milli(2000)]),
      SvgPrimitive("circle", <<>>, EmptyDict, <<>>, None, EmptyDict, EmptyDict),
      SvgPrimitive("ellipse", << <<2, 2>> >>, EmptyDict, <<>>, None, EmptyDict,
                   [radius_x |-> Milli(1000), radius_y |-> Milli(2000)]),
      SvgPrimitive("ellipse", << <<2, 2>> >>, EmptyDict, <<>>, None, EmptyDict,
                   [radius_y |-> Milli(2000)]),
      SvgPrimitive("text", << <<1, 1>> >>, "font-size" :> "5mm", <<>>, None, EmptyDict,
                   [text |-> "A1", text_anchor |-> Some("Middle")]),
      SvgPrimitive("text", << <<1, 1>> >>, EmptyDict, <<>>, None, EmptyDict,
                   [text |-> "a\nb", text_anchor |-> Some("end"),
                    font_family |-> "OpenGOST Type B TT"]),
      SvgPrimitive("text", << <<1, 1>> >>, EmptyDict, <<>>, None, EmptyDict,
                   [text |-> "t", text_anchor |-> None, font_family |-> "My Font",
                    text_scale |-> Milli(2000)]),
      SvgPrimitive("text", << <<1, 1>> >>, EmptyDict, <<>>, None, EmptyDict,
                   [text |-> "", text_anchor |-> None]),
      SvgPrimitive("image", <<>>, EmptyDict, <<>>, None, EmptyDict, EmptyDict) }

\* the primitives the longer documents are made of
SmallPool ==
    { SvgPrimitive("line", << <<0, 0>>, <<4, 0>> >>, [stroke |-> "#ff0000"], <<>>,
                   Some("axis"), EmptyDict, EmptyDict),
      SvgPrimitive("line", << <<0, 0>>, <<4, 0>> >>, [stroke |-> "#12"], <<>>,
                   None, EmptyDict, EmptyDict),
      SvgPrimitive("polyline", Triangle, StyleOf("url(#hatch7)", "#000000", "0.25"),
                   <<>>, None, EmptyDict, [closed |-> TRUE]),
      SvgPrimitive("polyline", Triangle, StyleOf("#808080", "none", ""),
                   <<"material-concrete">>, None, EmptyDict, [closed |-> TRUE]),
      SvgPrimitive("text", << <<1, 1>> >>, EmptyDict, <<>>, None, EmptyDict,
                   [text |-> "t", text_anchor |-> None, font_family |-> "My Font"]),
      SvgPrimitive("line", << <<0, 0>>, <<4, 0>> >>, [stroke |-> "#ff0000"],
                   <<"material-concrete">>, None, EmptyDict, EmptyDict) }

WriteDocs ==
    {<<p>> : p \in PolylinePool \cup OtherPool} \cup SeqsUpTo(SmallPool, MaxDocPrims)

\* rule lists the controller hands to convert
WriteRules ==
    << default_rules,
       <<MappingRule("tag:line", "L-AXIS", "BYBLOCK", "", None), CatchAllRule>>,
       <<MappingRule("tag:polyline", "P-RED", "#ff0000", "DASHED", Some(Milli(250))),
         MappingRule("id:axis", "L-AXIS", "7", "", None)>> >>

\* raw pattern tables, as set_pattern_map receives them
PatternMaps ==
    << <<>>,
      << <<"hatch7", DictValue([pattern |-> StrValue("ANSI31"),
                                scale |-> StrValue("1,5"),
                                color |-> StrValue("#00ff00")])>> >>,
      << <<"Hatch7", DictValue([pattern |-> StrValue("ANSI31"),
                                scale |-> StrValue("0.5"),
                                solid |-> StrValue("no")])>>,
         <<"steel", DictValue([solid |-> StrValue("yes")])>> >> >>

\* the rule list and the pattern table of each configuration written with
WriteConfigs ==
    { <<1, 1>>, <<1, 2>>, <<2, 3>>, <<3, 1>> }

WriteMappings ==
    { set_pattern_map([with_defaults EXCEPT !.rules = WriteRules[c[1]]], PatternMaps[c[2]]) :
        c \in WriteConfigs }

(***************************************************************************)
(* DxfWriter.write, one action per step of its loop.                       *)
(***************************************************************************)
WriteInit ==
    /\ mapping \in WriteMappings
    /\ ResolveOff
    /\ wdoc \in WriteDocs
    /\ WriterIdle
    /\ LoaderIdle
    /\ NoCall

\* the entities of an outcome, tagged with the index of their primitive
Tagged(added, i) == [k \in 1..Len(added) |-> [src |-> i, ent |-> added[k]]]

\* write, up to the loop: a new drawing and empty accumulators
WriteBegin ==
    /\ wpc = "idle"
    /\ wpc' = "loop"
    /\ wi' = 1
    /\ layers' = NewDocLayers
    /\ styles' = NewDocStyles
    /\ msp' = <<>>
    /\ written' = 0
    /\ log_messages' = <<>>
    /\ warnings' = <<>>
    /\ layers_created' = {}
    /\ self_mapping' = Some(mapping)
    /\ UNCHANGED <<fvars, mapping, rvars, lvars, wdoc, style_cache, saved, result>>

\* what the try block of the loop does for one primitive
Dispatch(primitive, attrs, pattern_rejected, registration) ==
    LET plain(out) == [out |-> out, styles |-> styles, cache |-> style_cache]
    IN  CASE primitive.kind = "line" -> plain(_write_line(primitive.points, attrs))
          [] primitive.kind = "polyline" ->
                plain(_write_polyline(The(self_mapping), primitive, attrs, pattern_rejected))
          [] primitive.kind = "circle" -> plain(_write_circle(primitive, attrs))
          [] primitive.kind = "ellipse" -> plain(_write_ellipse(primitive, attrs))
          [] primitive.kind = "text" ->
                _write_text(The(self_mapping), styles, style_cache, primitive, attrs,
                            registration)
          [] OTHER -> plain(Outcome(<<>>, <<>>, 0, Some("unsupported")))

\* whether the sink refuses the hatch pattern it is asked for: either, for a
\* polyline
SinkAnswers(primitive) == IF primitive.kind = "polyline" THEN BOOLEAN ELSE {FALSE}

\* what registering a text style can do
StyleAnswers(primitive) ==
    IF primitive.kind = "text" THEN {"ok", "fallback", "fail"} ELSE {"ok"}

\* one pass of the loop body.  resolve and to_dxf_attribs run before the
\* try block: what they raise leaves write.
WritePrimitiveWith(pattern_answers, style_answers) ==
    /\ wpc = "loop"
    /\ wi <= Len(wdoc)
    /\ \E resolved \in {resolve(mapping, wdoc[wi])} :
       \E dxf \in {IF resolved.ok THEN to_dxf_attribs(resolved.val) ELSE resolved} :
          IF ~dxf.ok
          THEN /\ wpc' = "aborted"
               /\ UNCHANGED <<wi, layers, styles, style_cache, msp, written,
                              log_messages, warnings, layers_created>>
          ELSE \E pattern_rejected \in pattern_answers, registration \in style_answers :
               \E d \in {Dispatch(wdoc[wi], dxf.val, pattern_rejected, registration)} :
                  /\ layers' = ensure_layer(layers, resolved.val.layer, resolved.val)
                  /\ layers_created' = layers_created \cup {resolved.val.layer}
                  /\ msp' = msp \o Tagged(d.out.added, wi)
                  /\ log_messages' = log_messages \o d.out.log
                  /\ written' = written + d.out.count
                  /\ warnings' = IF IsNone(d.out.raised) THEN warnings
                                 ELSE Append(warnings, wi)
                  /\ styles' = d.styles
                  /\ style_cache' = d.cache
                  /\ wi' = wi + 1
                  /\ wpc' = "loop"
    /\ UNCHANGED <<fvars, mapping, rvars, lvars, wdoc, self_mapping, saved, result>>

\* one pass of the loop body, the sink answering either way
WritePrimitive ==
    /\ wpc = "loop" /\ wi <= Len(wdoc)
    /\ WritePrimitiveWith(SinkAnswers(wdoc[wi]), StyleAnswers(wdoc[wi]))

\* after the loop: save, forget the mapping, return the result
WriteFinish ==
    /\ wpc = "loop"
    /\ wi > Len(wdoc)
    /\ wpc' = "done"
    /\ saved' = TRUE
    /\ self_mapping' = None
    /\ result' = Some([written_entities |-> written, created_layers |-> layers_created,
                       log_messages |-> log_messages, warnings |-> warnings])
    /\ UNCHANGED <<fvars, mapping, rvars, lvars, wdoc, wi, layers, styles, style_cache, msp, written,
                   log_messages, warnings, layers_created>>

WriteNext == WriteBegin \/ WritePrimitive \/ WriteFinish

SpecWrite == WriteInit /\ [][WriteNext]_vars


(***************************************************************************)
(* Claims about DxfWriter.write, checked under SpecWrite.                  *)
(***************************************************************************)
\* the primitives the loop has been through
Processed == IF wpc = "idle" THEN {} ELSE 1..(wi - 1)

\* how many entities of a type primitive i has in the modelspace
CountOf(i, type) ==
    Cardinality({k \in 1..Len(msp) : msp[k].src = i /\ msp[k].ent.type = type})

\* how many entities primitive i has in the modelspace
EntitiesOf(i) == Cardinality({k \in 1..Len(msp) : msp[k].src = i})

IsClosed(p) == Has(p.extra, "closed") /\ p.extra["closed"]

\* the stroke of p is none, transparent or empty, or its stroke-width is at
\* most 0.1
FaintStroke(p) ==
    \/ Lower(Strip(StyleOrEmpty(p.style, "stroke"))) \in {"", "none", "transparent"}
    \/ StrokeThin(StrokeWidth(p.style))

\* the fill of p is a value other than none, transparent or empty
Filled(p) == Lower(Strip(StyleOrEmpty(p.style, "fill"))) \notin {"", "none", "transparent"}

\* C2: write never aborts because of one primitive: whatever fails while one
\* primitive is handled becomes a warning and the loop goes on
C2_WriteNeverAborts == wpc # "aborted"

\* C9: a closed polyline of at least 2 points has no boundary polyline if and
\* only if it is filled, has a material class, has no "cut" class and a
\* faint stroke; in every other case it has exactly one polyline
C9_BoundaryOmittedIff ==
    \A i \in Processed :
        LET p == wdoc[i]
            suppressed == /\ Filled(p) /\ AnyMaterialClass(p.classes)
                          /\ ~InClasses("cut", p.classes) /\ FaintStroke(p)
        IN  (p.kind = "polyline" /\ IsClosed(p) /\ Len(p.points) >= 2) =>
                /\ suppressed => CountOf(i, "LWPOLYLINE") = 0 /\ CountOf(i, "HATCH") = 1
                /\ ~suppressed => CountOf(i, "LWPOLYLINE") = 1

\* C10: an open polyline with a material class and the "projection" class
\* and a faint stroke produces no entity; any other open polyline of at
\* least 2 points produces exactly one polyline and no hatch
C10_OpenPolyline ==
    \A i \in Processed :
        LET p == wdoc[i]
            hidden == /\ AnyMaterialClass(p.classes) /\ InClasses("projection", p.classes)
                      /\ FaintStroke(p)
        IN  (p.kind = "polyline" /\ ~IsClosed(p)) =>
                /\ hidden => EntitiesOf(i) = 0
                /\ (~hidden /\ Len(p.points) >= 2) =>
                      /\ EntitiesOf(i) = 1
                      /\ CountOf(i, "LWPOLYLINE") = 1
                      /\ CountOf(i, "HATCH") = 0

\* an open polyline of classes material-steel and projection, with a
\* visible stroke of stroke-width 0.05, has been written and has left no
\* entity in the modelspace
C10_Witness ==
    /\ wpc = "done"
    /\ Len(wdoc) = 1
    /\ wdoc[1].kind = "polyline" /\ ~IsClosed(wdoc[1]) /\ Len(wdoc[1].points) >= 2
    /\ wdoc[1].classes = <<"material-steel", "projection">>
    /\ StyleOrEmpty(wdoc[1].style, "stroke-width") = "0.05"
    /\ StyleOrEmpty(wdoc[1].style, "stroke") = "#000000"
    /\ msp = <<>>
    /\ The(result).written_entities = 0

\* the layer an entity of the modelspace is on
EntityLayer(entity) ==
    IF entity.type = "HATCH" THEN entity.layer ELSE entity.attribs["layer"]

\* no two layers of the table have the same name, case ignored
LayersUnique ==
    \A i, j \in 1..Len(layers) :
        i # j => Lower(layers[i].name) # Lower(layers[j].name)

\* C11: the layer of every entity in the modelspace is in the layer table
\* by the time the entity is there; no layer name is in the table twice; and
\* during the loop the table only grows at its end, every layer it holds
\* keeping the colour and line type it was created with
C11_LayerEnsuredOnce ==
    /\ [](/\ \A k \in 1..Len(msp) : LayerExists(layers, EntityLayer(msp[k].ent))
          /\ \A n \in layers_created : LayerExists(layers, n)
          /\ LayersUnique)
    /\ [][wpc = "loop" =>
            /\ Len(layers') >= Len(layers)
            /\ SubSeq(layers', 1, Len(layers)) = layers]_vars

\* two primitives have been written that resolve to the same new layer with
\* different colours: the layer has the colour of the first
C11_Witness ==
    /\ wpc = "done" /\ Len(wdoc) = 2
    /\ LET first  == resolve(mapping, wdoc[1])
           second == resolve(mapping, wdoc[2])
       IN  /\ first.ok /\ second.ok
           /\ first.val.layer = second.val.layer
           /\ ~LayerExists(NewDocLayers, first.val.layer)
           /\ LayerColorIndex(first.val) # LayerColorIndex(second.val)
           /\ \E i \in 1..Len(layers) :
                 /\ layers[i].name = first.val.layer
                 /\ layers[i].color = LayerColorIndex(first.val)
           /\ \E k \in 1..Len(msp) : msp[k].src = 2

\* the anchor of a text primitive, in lower case: "" when it has none
AnchorOf(p) ==
    IF Has(p.extra, "text_anchor") /\ p.extra["text_anchor"] # None
    THEN Lower(The(p.extra["text_anchor"])) ELSE ""

\* the alignment an anchor asks for: 1 centre, 2 right, None the default
AnchorAlignment(anchor) ==
    IF anchor \in {"middle", "center"} THEN Some(1)
    ELSE IF anchor \in {"end", "right"} THEN Some(2)
    ELSE None

\* entity is aligned as the anchor of p asks, at the position of p
AlignedAt(entity, p) ==
    /\ entity.insert = p.points[1]
    /\ entity.halign = AnchorAlignment(AnchorOf(p))
    /\ entity.align_point = IF AnchorAlignment(AnchorOf(p)) = None THEN None
                            ELSE Some(p.points[1])

\* C20: the entity of a text primitive, a single-line text or a multi-line
\* paragraph alike, is centred for the anchors middle and center and
\* right-aligned for end and right, its alignment point the primitive's
\* position; any other anchor leaves the default alignment; the position is
\* the primitive's own
C20_AnchorAlignment ==
    \A k \in 1..Len(msp) :
        msp[k].ent.type \in {"TEXT", "MTEXT"} => AlignedAt(msp[k].ent, wdoc[msp[k].src])

\* the layers the loop has ensured: those the primitives it has been
\* through resolve to
EnsuredLayers == {resolve(mapping, wdoc[i]).val.layer : i \in Processed}

\* C21: the result of write reports as written_entities the number of
\* entities added to the modelspace during the run, a hatch added before a
\* later failure on its primitive included, and as created_layers the layer
\* names ensured during the run, each once
C21_ResultCounts ==
    wpc = "done" =>
        /\ The(result).written_entities = Len(msp)
        /\ The(result).created_layers = EnsuredLayers


(***************************************************************************)
(* transform_utils.py.  A matrix is its two upper rows, <<a, c, e>> and    *)
(* <<b, d, f>>; the third row is always 0 0 1.                             *)
(***************************************************************************)
\* identity_matrix
identity_matrix == << <<FixedOne, 0, 0>>, <<0, FixedOne, 0>> >>

\* multiply: a @ b
multiply(a, b) ==
    [i \in 1..2 |->
        << MulFixed(a[i][1], b[1][1]) + MulFixed(a[i][2], b[2][1]),
           MulFixed(a[i][1], b[1][2]) + MulFixed(a[i][2], b[2][2]),
           MulFixed(a[i][1], b[1][3]) + MulFixed(a[i][2], b[2][3]) + a[i][3] >>]

\* translation_matrix
translation_matrix(tx, ty) == << <<FixedOne, 0, tx>>, <<0, FixedOne, ty>> >>

\* scale_matrix
scale_matrix(sx, sy) == << <<sx, 0, 0>>, <<0, sy, 0>> >>

\* the image of one point
transform_point(matrix, point) ==
    << MulFixed(matrix[1][1], point[1]) + MulFixed(matrix[1][2], point[2]) + matrix[1][3],
       MulFixed(matrix[2][1], point[1]) + MulFixed(matrix[2][2], point[2]) + matrix[2][3] >>

\* apply_transform
apply_transform(matrix, points) ==
    [k \in 1..Len(points) |-> transform_point(matrix, points[k])]

\* the end of the run of letters that starts at i
RECURSIVE AlphaRunEnd(_, _)
AlphaRunEnd(s, i) ==
    IF i < Len(s) /\ IsAlpha(Ch(s, i + 1)) THEN AlphaRunEnd(s, i + 1) ELSE i

\* TRANSFORM_RE.finditer: the <<name, args>> pairs of name(args) in s, from
\* position i on
RECURSIVE TransformMatches(_, _)
TransformMatches(s, i) ==
    IF i > Len(s) THEN <<>>
    ELSE IF ~IsAlpha(Ch(s, i)) THEN TransformMatches(s, i + 1)
    ELSE LET j     == AlphaRunEnd(s, i)
             close == IndexIn(s, ")", j + 2)
         IN  IF j < Len(s) /\ Ch(s, j + 1) = "(" /\ close > j + 2
             THEN <<<<SubSeq(s, i, j), SubSeq(s, j + 2, close - 1)>>>>
                  \o TransformMatches(s, close + 1)
             ELSE TransformMatches(s, j + 1)

\* re.split(r"[ ,]+", s), without the empty parts
RECURSIVE SplitArgs(_, _)
SplitArgs(s, word) ==
    IF s = "" THEN (IF word = "" THEN <<>> ELSE <<word>>)
    ELSE IF Ch(s, 1) \in {" ", ","}
         THEN (IF word = "" THEN <<>> ELSE <<word>>) \o SplitArgs(SubSeq(s, 2, Len(s)), "")
    ELSE SplitArgs(SubSeq(s, 2, Len(s)), word \o Ch(s, 1))

\* [float(x) for x in parts]: Ok(numbers), or the first ValueError
RECURSIVE FloatsOf(_, _, _)
FloatsOf(parts, k, done) ==
    IF k > Len(parts) THEN Ok(done)
    ELSE LET f == ParseFloat(parts[k])
         IN  IF f.ok THEN FloatsOf(parts, k + 1, Append(done, f.val)) ELSE f

\* cos and sin of the right angles, the only rotations of the documents here
CosSinDeg(angle) ==
    CASE angle = 0 -> <<FixedOne, 0>>
      [] angle = 90 * FixedOne -> <<0, FixedOne>>
      [] angle = 180 * FixedOne -> <<0 - FixedOne, 0>>
      [] angle = 270 * FixedOne -> <<0, 0 - FixedOne>>

\* tan of the skew angles of the documents here
TanDeg(angle) ==
    CASE angle = 0 -> 0
      [] angle = 45 * FixedOne -> FixedOne

\* rotation by an angle in degrees
Rotation(angle) ==
    << <<CosSinDeg(angle)[1], 0 - CosSinDeg(angle)[2], 0>>,
       <<CosSinDeg(angle)[2], CosSinDeg(angle)[1], 0>> >>

\* _matrix_for_command: Ok(matrix), or the IndexError of args[0]
_matrix_for_command(name, args) ==
    IF name = "matrix" /\ Len(args) = 6
    THEN Ok(<< <<args[1], args[3], args[5]>>, <<args[2], args[4], args[6]>> >>)
    ELSE IF name \in {"translate", "scale", "rotate", "skewx", "skewy"} /\ Len(args) = 0
         THEN Raised("IndexError")
    ELSE IF name = "translate"
         THEN Ok(translation_matrix(args[1], IF Len(args) > 1 THEN args[2] ELSE 0))
    ELSE IF name = "scale"
         THEN Ok(scale_matrix(args[1], IF Len(args) > 1 THEN args[2] ELSE args[1]))
    ELSE IF name = "rotate"
         THEN IF Len(args) = 3
              THEN Ok(multiply(multiply(translation_matrix(args[2], args[3]),
                                        Rotation(args[1])),
                               translation_matrix(0 - args[2], 0 - args[3])))
              ELSE Ok(Rotation(args[1]))
    ELSE IF name = "skewx" THEN Ok(<< <<FixedOne, TanDeg(args[1]), 0>>, <<0, FixedOne, 0>> >>)
    ELSE IF name = "skewy" THEN Ok(<< <<FixedOne, 0, 0>>, <<TanDeg(args[1]), FixedOne, 0>> >>)
    ELSE Ok(identity_matrix)

\* the loop of parse_transform over the matches, from the k-th on
RECURSIVE TransformFrom(_, _, _)
TransformFrom(matches, k, matrix) ==
    IF k > Len(matches) THEN Ok(matrix)
    ELSE LET args == FloatsOf(SplitArgs(Strip(matches[k][2]), ""), 1, <<>>)
             step == IF args.ok THEN _matrix_for_command(Lower(matches[k][1]), args.val)
                     ELSE args
         IN  IF step.ok THEN TransformFrom(matches, k + 1, multiply(matrix, step.val))
             ELSE step

\* parse_transform: transform is None or Some(string); Ok(matrix), or the
\* ValueError of float() or the IndexError of a command without arguments
parse_transform(transform) ==
    IF IsNone(transform) \/ The(transform) = "" THEN Ok(identity_matrix)
    ELSE TransformFrom(TransformMatches(Strip(The(transform)), 1), 1, identity_matrix)


(***************************************************************************)
(* Elements of a parsed SVG tree, and style_resolver.py.                   *)
(***************************************************************************)
\* an element: its local name, its attributes, its children, its own text
Element(tag, attrs, children, text) ==
    [tag |-> tag, attrs |-> attrs, children |-> children, text |-> text]

\* element.get(name): None or Some(value)
AttrGet(element, name) ==
    IF Has(element.attrs, name) THEN Some(element.attrs[name]) ELSE None

\* element.get(name, default)
AttrOr(element, name, default) ==
    IF Has(element.attrs, name) THEN element.attrs[name] ELSE default

\* etree.QName(element.tag).localname.lower()
LocalName(element) == Lower(element.tag)

\* s.split(c): the parts between the occurrences of the character c
RECURSIVE SplitOn(_, _, _)
SplitOn(s, c, word) ==
    IF s = "" THEN <<word>>
    ELSE IF Ch(s, 1) = c THEN <<word>> \o SplitOn(SubSeq(s, 2, Len(s)), c, "")
    ELSE SplitOn(SubSeq(s, 2, Len(s)), c, word \o Ch(s, 1))

\* the declarations of parts, from the k-th on, laid over properties
RECURSIVE DeclarationsFrom(_, _, _)
DeclarationsFrom(parts, k, properties) ==
    IF k > Len(parts) THEN properties
    ELSE IF Strip(parts[k]) = "" \/ ~Contains(parts[k], ":")
         THEN DeclarationsFrom(parts, k + 1, properties)
    ELSE DeclarationsFrom(parts, k + 1,
            Update(properties, Strip(SplitHead(parts[k], ":")) :> Strip(SplitTail(parts[k], ":"))))

\* parse_inline_style
parse_inline_style(style_value) ==
    DeclarationsFrom(SplitOn(style_value, ";", ""), 1, EmptyDict)

\* the non-empty ones of parts, from the k-th on
RECURSIVE NonEmptyFrom(_, _)
NonEmptyFrom(parts, k) ==
    IF k > Len(parts) THEN <<>>
    ELSE (IF parts[k] = "" THEN <<>> ELSE <<parts[k]>>) \o NonEmptyFrom(parts, k + 1)

\* StyleResolver.extract_classes
extract_classes(element) ==
    IF ~Has(element.attrs, "class") \/ element.attrs["class"] = "" THEN <<>>
    ELSE NonEmptyFrom(SplitOn(element.attrs["class"], " ", ""), 1)

\* StyleResolver._attributes_to_style
_attributes_to_style(element) ==
    [k \in {"stroke", "stroke-width", "stroke-dasharray", "fill", "fill-rule"}
            \cap DOMAIN element.attrs |-> element.attrs[k]]

\* CssRule(selector_type, selector_value, properties)
CssRule(selector_type, selector_value, properties) ==
    [selector_type |-> selector_type, selector_value |-> selector_value,
     properties |-> properties]

\* whether a rule applies to an element
RuleApplies(rule, element) ==
    \/ rule.selector_type = "universal"
    \/ rule.selector_type = "tag" /\ rule.selector_value = LocalName(element)
    \/ rule.selector_type = "class" /\ InClasses(rule.selector_value, extract_classes(element))
    \/ /\ rule.selector_type = "id"
       /\ Has(element.attrs, "id") /\ element.attrs["id"] # ""
       /\ rule.selector_value = element.attrs["id"]

\* the rule loop of StyleResolver.resolve, from the k-th rule on
RECURSIVE CascadeFrom(_, _, _, _)
CascadeFrom(rules, k, element, style) ==
    IF k > Len(rules) THEN style
    ELSE CascadeFrom(rules, k + 1, element,
                     IF RuleApplies(rules[k], element)
                     THEN Update(style, rules[k].properties) ELSE style)

\* StyleResolver.resolve with the inline declaration laid down before the
\* presentation attributes
StyleResolve_InlineFirst(rules, element) ==
    Update(Update(CascadeFrom(rules, 1, element, EmptyDict),
                  IF Has(element.attrs, "style") /\ element.attrs["style"] # ""
                  THEN parse_inline_style(element.attrs["style"]) ELSE EmptyDict),
           _attributes_to_style(element))

\* StyleResolver.resolve, without extra_style (the loader passes none)
StyleResolve(rules, element) ==
    Update(Update(CascadeFrom(rules, 1, element, EmptyDict), _attributes_to_style(element)),
           IF Has(element.attrs, "style") /\ element.attrs["style"] # ""
           THEN parse_inline_style(element.attrs["style"]) ELSE EmptyDict)


(***************************************************************************)
(* svg_loader.py: the primitive constructors.  Each returns Ok of the      *)
(* primitives and the warnings, or the exception it leaves by.             *)
(***************************************************************************)
Created(primitives, notes) == Ok([primitives |-> primitives, warnings |-> notes])

\* element.get('id') as a message shows it
IdText(element) == IF Has(element.attrs, "id") THEN element.attrs["id"] ELSE "None"

\* float() of each of the named attributes, "0" for a missing one
AttrFloats(element, names) ==
    FloatsOf([k \in 1..Len(names) |-> AttrOr(element, names[k], "0")], 1, <<>>)

\* _create_line
_create_line(element, transform, style, classes) ==
    LET n == AttrFloats(element, <<"x1", "y1", "x2", "y2">>)
    IN  IF ~n.ok THEN Created(<<>>, <<"line parse failure id=" \o IdText(element)>>)
        ELSE Created(<<SvgPrimitive("line",
                          apply_transform(transform, << <<n.val[1], n.val[2]>>,
                                                        <<n.val[3], n.val[4]>> >>),
                          style, classes, AttrGet(element, "id"), element.attrs,
                          EmptyDict)>>, <<>>)

\* _create_rect
_create_rect(element, transform, style, classes) ==
    LET n == AttrFloats(element, <<"x", "y", "width", "height">>)
    IN  IF ~n.ok THEN Created(<<>>, <<"rect parse failure id=" \o IdText(element)>>)
        ELSE Created(<<SvgPrimitive("polyline",
                          apply_transform(transform,
                              << <<n.val[1], n.val[2]>>,
                                 <<n.val[1] + n.val[3], n.val[2]>>,
                                 <<n.val[1] + n.val[3], n.val[2] + n.val[4]>>,
                                 <<n.val[1], n.val[2] + n.val[4]>>,
                                 <<n.val[1], n.val[2]>> >>),
                          style, classes, AttrGet(element, "id"), element.attrs,
                          [closed |-> TRUE, origin |-> "rect",
                           rx |-> AttrGet(element, "rx"), ry |-> AttrGet(element, "ry")])>>,
                     <<>>)

\* distance, for two points on one horizontal or vertical line (the images
\* of the axes under the transforms of the documents here)
distance(p1, p2) ==
    CASE p1[1] = p2[1] -> Abs(p1[2] - p2[2])
      [] p1[2] = p2[2] -> Abs(p1[1] - p2[1])

\* the circle or ellipse primitive of centre (cx, cy) and radii rx, ry
RoundPrimitive(kind, element, transform, style, classes, cx, cy, rx, ry) ==
    SvgPrimitive(kind, <<transform_point(transform, <<cx, cy>>)>>, style, classes,
                 AttrGet(element, "id"), element.attrs,
                 [radius_x |-> distance(transform_point(transform, <<cx, cy>>),
                                        transform_point(transform, <<cx + rx, cy>>)),
                  radius_y |-> distance(transform_point(transform, <<cx, cy>>),
                                        transform_point(transform, <<cx, cy + ry>>))])

\* _create_circle
_create_circle(element, transform, style, classes) ==
    LET n == AttrFloats(element, <<"cx", "cy", "r">>)
    IN  IF ~n.ok THEN Created(<<>>, <<"circle parse failure id=" \o IdText(element)>>)
        ELSE Created(<<RoundPrimitive("circle", element, transform, style, classes,
                                      n.val[1], n.val[2], n.val[3], n.val[3])>>, <<>>)

\* _create_ellipse
_create_ellipse(element, transform, style, classes) ==
    LET n == AttrFloats(element, <<"cx", "cy", "rx", "ry">>)
    IN  IF ~n.ok THEN Created(<<>>, <<"ellipse parse failure id=" \o IdText(element)>>)
        ELSE Created(<<RoundPrimitive("ellipse", element, transform, style, classes,
                                      n.val[1], n.val[2], n.val[3], n.val[4])>>, <<>>)

\* " ".join(s.split()): the words of s, one blank between them
RECURSIVE JoinWords(_, _)
JoinWords(s, word) ==
    IF s = "" THEN word
    ELSE IF IsSpace(Ch(s, 1))
         THEN IF word = "" THEN JoinWords(SubSeq(s, 2, Len(s)), "")
              ELSE LET rest == JoinWords(SubSeq(s, 2, Len(s)), "")
                   IN  IF rest = "" THEN word ELSE word \o " " \o rest
    ELSE JoinWords(SubSeq(s, 2, Len(s)), word \o Ch(s, 1))

\* the stripped, non-empty texts of the tspan children, from the k-th child on
RECURSIVE TspanLines(_, _)
TspanLines(children, k) ==
    IF k > Len(children) THEN <<>>
    ELSE (IF LocalName(children[k]) = "tspan" /\ Strip(children[k].text) # ""
          THEN <<Strip(children[k].text)>> ELSE <<>>) \o TspanLines(children, k + 1)

\* "\n".join(lines)
RECURSIVE JoinLines(_, _)
JoinLines(lines, k) ==
    IF k > Len(lines) THEN ""
    ELSE lines[k] \o (IF k < Len(lines) THEN "\n" ELSE "") \o JoinLines(lines, k + 1)

\* "".join(element.itertext()) for an element whose children hold text only
RECURSIVE ChildText(_, _)
ChildText(children, k) ==
    IF k > Len(children) THEN "" ELSE children[k].text \o ChildText(children, k + 1)

\* extract_text_content
extract_text_content(element) ==
    IF TspanLines(element.children, 1) # <<>>
    THEN JoinLines(TspanLines(element.children, 1), 1)
    ELSE JoinWords(element.text \o ChildText(element.children, 1), "")

\* float(element.get(name, "0") or 0)
AttrFloatOrZero(element, name) ==
    IF AttrOr(element, name, "0") = "" THEN Ok(0) ELSE ParseFloat(AttrOr(element, name, "0"))

\* _create_text: float() runs outside any try
_create_text(element, transform, style, classes) ==
    LET x == AttrFloatOrZero(element, "x")
        y == AttrFloatOrZero(element, "y")
    IN  IF extract_text_content(element) = "" THEN Created(<<>>, <<>>)
        ELSE IF ~x.ok THEN x
        ELSE IF ~y.ok THEN y
        ELSE Created(<<SvgPrimitive("text", <<transform_point(transform, <<x.val, y.val>>)>>,
                          style, classes, AttrGet(element, "id"), element.attrs,
                          [text |-> extract_text_content(element),
                           text_anchor |->
                              IF Has(element.attrs, "text-anchor")
                              THEN Some(element.attrs["text-anchor"])
                              ELSE IF Has(style, "text-anchor")
                                   THEN Some(style["text-anchor"]) ELSE None])>>,
                     <<>>)


(***************************************************************************)
(* svg_loader.py: the document of a root element.                          *)
(***************************************************************************)
\* a quotient of two fixed-point numbers (exact when it is whole; else cut
\* to thousandths); b is not 0
DivAbs(a, b) ==
    (a \div b) * FixedOne
    + ((((a % b) \div (FixedOne \div 1000)) * 1000) \div (b \div (FixedOne \div 1000)))
      * (FixedOne \div 1000)

DivFixed(a, b) ==
    IF (a < 0) = (b < 0) THEN DivAbs(Abs(a), Abs(b)) ELSE 0 - DivAbs(Abs(a), Abs(b))

\* value.replace(old, new) for one-character strings
RECURSIVE ReplaceCh(_, _, _)
ReplaceCh(s, old, new) ==
    IF s = "" THEN ""
    ELSE (IF Ch(s, 1) = old THEN new ELSE Ch(s, 1)) \o ReplaceCh(SubSeq(s, 2, Len(s)), old, new)

\* parse_viewbox: value is None or Some(string); None, or Some of four numbers
parse_viewbox(value) ==
    IF IsNone(value) \/ The(value) = "" THEN None
    ELSE LET parts   == NonEmptyFrom(SplitOn(ReplaceCh(The(value), ",", " "), " ", ""), 1)
             numbers == FloatsOf(parts, 1, <<>>)
         IN  IF Len(parts) # 4 \/ ~numbers.ok THEN None ELSE Some(numbers.val)

\* x or 1.0
OrOne(x) == IF x = 0 THEN FixedOne ELSE x

\* the SvgDocument _load_internal starts from, with the root matrix, given
\* the sizes and the view box read from the root
DocumentOf(path, width_mm, height_mm, viewbox, scale_x, scale_y) ==
    [path |-> path, width_mm |-> width_mm, height_mm |-> height_mm,
     viewbox |-> viewbox, scale_x |-> scale_x, scale_y |-> scale_y,
     primitives |-> <<>>, warnings |-> <<>>,
     root_matrix |-> << <<scale_x, 0, 0 - MulFixed(viewbox[1], scale_x)>>,
                        <<0, 0 - scale_y, MulFixed(viewbox[2] + viewbox[4], scale_y)>> >>]

\* the scales of a document: width_mm / viewbox_width, height_mm /
\* viewbox_height, 1.0 for an empty view box
ScaledDocument(path, width_mm, height_mm, viewbox) ==
    DocumentOf(path, width_mm, height_mm, viewbox,
               IF viewbox[3] # 0 THEN DivFixed(width_mm, viewbox[3]) ELSE FixedOne,
               IF viewbox[4] # 0 THEN DivFixed(height_mm, viewbox[4]) ELSE FixedOne)

\* the view box of a document: the parsed one, else the sizes
SizedDocument(path, width_mm, height_mm, parsed) ==
    ScaledDocument(path, width_mm, height_mm,
                   IF IsNone(parsed) THEN <<0, 0, OrOne(width_mm), OrOne(height_mm)>>
                   ELSE The(parsed))

\* _load_internal, from the root to the empty SvgDocument
NewDocument(path, root) ==
    SizedDocument(path, parse_length(Some(AttrOr(root, "width", "0"))),
                  parse_length(Some(AttrOr(root, "height", "0"))),
                  parse_viewbox(AttrGet(root, "viewBox")))

\* whether a style node lies in the tree of an element
RECURSIVE HasStyleNode(_)
HasStyleNode(element) ==
    \/ LocalName(element) = "style" /\ element.text # ""
    \/ \E k \in 1..Len(element.children) : HasStyleNode(element.children[k])

\* the rules of the StyleResolver of a document: there are no CSS files, and
\* the documents here hold no style node
DocumentRules(root) == CASE ~HasStyleNode(root) -> <<>>

(***************************************************************************)
(* svg_loader.py: references to embedded documents.                        *)
(***************************************************************************)
XlinkHref == "{http://www.w3.org/1999/xlink}href"

\* the href of an image element: None or Some(string)
ImageHref(element) ==
    IF AttrOr(element, XlinkHref, "") # "" THEN AttrGet(element, XlinkHref)
    ELSE IF AttrOr(element, "href", "") # "" THEN AttrGet(element, "href")
    ELSE IF AttrOr(element, "xlink:href", "") # "" THEN AttrGet(element, "xlink:href")
    ELSE None

\* unquote, for the one escape of the hrefs here: %20
RECURSIVE unquote(_)
unquote(s) ==
    IF s = "" THEN ""
    ELSE IF StartsWith(s, "%20") THEN " " \o unquote(SubSeq(s, 4, Len(s)))
    ELSE Ch(s, 1) \o unquote(SubSeq(s, 2, Len(s)))

\* urlparse(url).scheme: the letters before the first colon, if any
UrlScheme(url) ==
    LET colon == IndexIn(url, ":", 1)
    IN  IF colon > 1 /\ \A k \in 1..(colon - 1) : IsAlpha(Ch(url, k))
        THEN Lower(SubSeq(url, 1, colon - 1)) ELSE ""

\* the text before the first of the characters "?" and "#"
RECURSIVE BeforeQuery(_)
BeforeQuery(s) ==
    IF s = "" \/ Ch(s, 1) \in {"?", "#"} THEN ""
    ELSE Ch(s, 1) \o BeforeQuery(SubSeq(s, 2, Len(s)))

\* urlparse(url).path
UrlPath(url) ==
    LET rest  == IF UrlScheme(url) = "" THEN url
                 ELSE SubSeq(url, IndexIn(url, ":", 1) + 1, Len(url))
        local == IF StartsWith(rest, "//")
                 THEN LET slash == IndexIn(rest, "/", 3)
                      IN  IF slash = 0 THEN "" ELSE SubSeq(rest, slash, Len(rest))
                 ELSE rest
    IN  BeforeQuery(local)

\* the last position of the character c in s, 0 if there is none
RECURSIVE LastIndexIn(_, _, _)
LastIndexIn(s, c, i) ==
    IF i = 0 THEN 0 ELSE IF Ch(s, i) = c THEN i ELSE LastIndexIn(s, c, i - 1)

\* Path(p).name
BaseName(p) == SubSeq(p, LastIndexIn(p, "/", Len(p)) + 1, Len(p))

\* Path(p).parent
ParentDir(p) == SubSeq(p, 1, LastIndexIn(p, "/", Len(p)) - 1)

\* whether the text t occurs in s
RECURSIVE HasSubstring(_, _)
HasSubstring(s, t) ==
    Len(s) >= Len(t) /\ (StartsWith(s, t) \/ HasSubstring(SubSeq(s, 2, Len(s)), t))

\* resolve_reference_path; files: the paths that exist
resolve_reference_path(files, base_dir, href) ==
    LET slashed    == ReplaceCh(href, "\\", "/")
        normalized == IF StartsWith(slashed, "file://") THEN SubSeq(slashed, 8, Len(slashed))
                      ELSE slashed
        candidate  == IF StartsWith(normalized, "/") THEN normalized
                      ELSE base_dir \o "/" \o normalized
        fallback   == base_dir \o "/" \o BaseName(normalized)
    IN  IF candidate \notin files /\ fallback \in files THEN fallback ELSE candidate

\* path_str, if it names an SVG file
SvgPathOf(path_str) ==
    IF HasSubstring(Lower(path_str), ".svg") THEN Some(path_str) ELSE None

\* the path of a decoded href, unless its scheme is one other than file
PathOfUrl(decoded) ==
    IF UrlScheme(decoded) # "" /\ UrlScheme(decoded) # "file" THEN None
    ELSE SvgPathOf(IF UrlPath(decoded) # "" THEN UrlPath(decoded) ELSE decoded)

\* the path of a stripped href, unless it is a data URI
TargetOfHref(href) ==
    IF StartsWith(href, "data:") THEN None ELSE PathOfUrl(unquote(href))

\* the path string of the SVG file an image element refers to: None when
\* _create_image returns nothing for it, else Some(path_str)
ImageTarget(element) ==
    IF IsNone(ImageHref(element)) THEN None
    ELSE TargetOfHref(Strip(The(ImageHref(element))))


\* a or b
OrElse(a, b) == IF a # 0 THEN a ELSE b

\* the warnings of an embedded document left behind
PrefixAll_Dropped(prefix, msgs) == <<>>

\* prefix: msg for each message
PrefixAll(prefix, msgs) == [k \in 1..Len(msgs) |-> prefix \o ": " \o msgs[k]]

\* _create_image, from the return of the nested load on: the primitives of
\* the embedded document, placed and given the image's classes, and the
\* warnings about it
EmbeddedResult(element, transform, classes, embedded_document) ==
    LET width_attr    == parse_length(AttrGet(element, "width"))
        height_attr   == parse_length(AttrGet(element, "height"))
        base_width    == OrElse(embedded_document.width_mm,
                                OrElse(embedded_document.viewbox[3], FixedOne))
        base_height   == OrElse(embedded_document.height_mm,
                                OrElse(embedded_document.viewbox[4], FixedOne))
        target_width  == OrElse(width_attr, OrElse(embedded_document.width_mm, base_width))
        target_height == OrElse(height_attr, OrElse(embedded_document.height_mm, base_height))
        combined_transform ==
            multiply(transform,
                     multiply(translation_matrix(parse_length(AttrGet(element, "x")),
                                                 parse_length(AttrGet(element, "y"))),
                              scale_matrix(DivFixed(target_width, base_width),
                                           DivFixed(target_height, base_height))))
        name == BaseName(embedded_document.path)
    IN  [primitives |->
            [k \in 1..Len(embedded_document.primitives) |->
                [embedded_document.primitives[k] EXCEPT
                    !.points = apply_transform(combined_transform, @),
                    !.classes = merge_classes(classes, @)]],
         warnings |->
            <<"embedded " \o name \o " loaded " \o ToString(Len(embedded_document.primitives))>>
            \o PrefixAll(name, embedded_document.warnings)]

\* reversed(list(element))
Reversed(children) == [k \in 1..Len(children) |-> children[Len(children) + 1 - k]]

\* the children in the order the loop would push them in were they not
\* reversed
PushOrder_AsListed(children) == children

\* the children in the order the loop pushes them on its stack
PushOrder(children) == Reversed(children)

\* a stack entry that carries no style down to the child
StackEntry_StyleDropped(element, transform, style, classes) ==
    [element |-> element, transform |-> transform, style |-> EmptyDict, classes |-> classes]

\* one entry of the stack of _load_internal
StackEntry(element, transform, style, classes) ==
    [element |-> element, transform |-> transform, style |-> style, classes |-> classes]

\* what _create_image does for a file that is referred to.  files: the
\* paths that exist; seen: the visited set
ImagePass(files, seen, element, transform, classes, candidate) ==
    IF candidate \notin files
    THEN [kind |-> "extend", primitives |-> <<>>,
          warnings |-> <<"missing " \o Strip(The(ImageHref(element)))>>]
    ELSE IF candidate \in seen
         THEN [kind |-> "extend", primitives |-> <<>>,
               warnings |-> <<"not loaded " \o candidate \o ": circular reference">>]
    ELSE [kind |-> "call", path |-> candidate,
          pending |-> [element |-> element, transform |-> transform, classes |-> classes]]

\* what _create_image does, up to the nested load.  base_dir: the directory
\* of the document
ImageRef(files, seen, base_dir, element, transform, classes, target) ==
    IF IsNone(target) THEN [kind |-> "extend", primitives |-> <<>>, warnings |-> <<>>]
    ELSE ImagePass(files, seen, element, transform, classes,
                   resolve_reference_path(files, base_dir, The(target)))

\* what the loop does with what a constructor returns
Made(created) ==
    IF created.ok
    THEN [kind |-> "extend", primitives |-> created.val.primitives,
          warnings |-> created.val.warnings]
    ELSE [kind |-> "raise", exc |-> created.val]

\* what one pass of the loop of _load_internal does with an element, its
\* transform, style and classes combined with the inherited ones
PassWith(files, seen, path, element, tag, current_transform, combined_style, combined_classes) ==
    IF tag \in {"g", "svg", "a"}
    THEN [kind |-> "push",
          entries |-> [k \in 1..Len(element.children) |->
                          StackEntry(PushOrder(element.children)[k], current_transform,
                                     combined_style, combined_classes)]]
    ELSE IF tag = "image"
         THEN ImageRef(files, seen, ParentDir(path), element, current_transform,
                       combined_classes, ImageTarget(element))
    ELSE IF tag = "line"
         THEN Made(_create_line(element, current_transform, combined_style, combined_classes))
    ELSE IF tag = "rect"
         THEN Made(_create_rect(element, current_transform, combined_style, combined_classes))
    ELSE IF tag = "circle"
         THEN Made(_create_circle(element, current_transform, combined_style, combined_classes))
    ELSE IF tag = "ellipse"
         THEN Made(_create_ellipse(element, current_transform, combined_style, combined_classes))
    ELSE IF tag = "text"
         THEN Made(_create_text(element, current_transform, combined_style, combined_classes))
    ELSE CASE tag \notin {"polyline", "polygon", "path"} -> [kind |-> "skip"]

\* one pass of the loop, given what parse_transform made of the element's
\* transform attribute: what it raises leaves the loop
PassParsed(files, seen, path, rules, entry, element_transform) ==
    IF ~element_transform.ok THEN [kind |-> "raise", exc |-> element_transform.val]
    ELSE PassWith(files, seen, path, entry.element, LocalName(entry.element),
                  multiply(entry.transform, element_transform.val),
                  Update(entry.style, StyleResolve(rules, entry.element)),
                  merge_classes(entry.classes, extract_classes(entry.element)))

\* a pass that treats defs and metadata as the containers g, svg and a
Pass_DefsEntered(files, seen, path, rules, entry) ==
    IF LocalName(entry.element) \in {"defs", "metadata"}
    THEN PassWith(files, seen, path, entry.element, "g", entry.transform, entry.style,
                  entry.classes)
    ELSE PassParsed(files, seen, path, rules, entry,
                    parse_transform(AttrGet(entry.element, "transform")))

\* one pass of the loop: defs and metadata are passed over before the
\* transform attribute is read
Pass(files, seen, path, rules, entry) ==
    IF LocalName(entry.element) \in {"defs", "metadata"} THEN [kind |-> "skip"]
    ELSE PassParsed(files, seen, path, rules, entry,
                    parse_transform(AttrGet(entry.element, "transform")))

(***************************************************************************)
(* The inputs of the loader runs: three files that exist, one that does not.*)
(***************************************************************************)
PathA == "/d/a.svg"
PathB == "/d/b.svg"
PathMissing == "/d/c.svg"
PathE == "/d/e.svg"

\* a line element
LineElement(id, x1, x2) ==
    Element("line", [id |-> id, x1 |-> x1, y1 |-> "0", x2 |-> x2, y2 |-> "1"], <<>>, "")

\* an svg root of 10 mm by 10 mm
Root(children) ==
    Element("svg", [width |-> "10mm", height |-> "10", viewBox |-> "0 0 10 10"], children, "")

\* the children the roots of file a are made of
PoolA ==
    { LineElement("a1", "0", "2"),
      LineElement("a2", "1", "x"),
      Element("text", [id |-> "a3", x |-> "1"] @@ ("text-anchor" :> "middle"), <<>>, " note "),
      Element("text", [id |-> "a4", x |-> "1em", y |-> "2"], <<>>, "note"),
      Element("g", [class |-> "IfcWall", transform |-> "translate(1,1)", stroke |-> "red",
                    style |-> "stroke-width: 2"],
              << Element("rect", [id |-> "a5", width |-> "2", height |-> "1", fill |-> "none"],
                         <<>>, ""),
                 Element("circle", [id |-> "a6", cx |-> "1", r |-> "1", stroke |-> "blue",
                                    class |-> "material-steel IfcWall"],
                         <<>>, "") >>, ""),
      Element("rect", [id |-> "a7", width |-> "1", transform |-> "scale(a)"], <<>>, ""),
      Element("defs", <<>>,
              << Element("g", [class |-> "hidden"], <<LineElement("a8", "0", "1")>>, ""),
                 Element("image", [id |-> "a9", href |-> "x.svg"], <<>>, "") >>, ""),
      Element("metadata", [transform |-> "scale(a)"],
              <<Element("text", [id |-> "a10"], <<>>, "made")>>, ""),
      Element("image", [id |-> "ae", href |-> "e.svg", class |-> "ref mark"], <<>>, ""),
      Element("image", [id |-> "ai", href |-> "b.svg", width |-> "20", class |-> "ref"], <<>>, ""),
      Element("image", [id |-> "aj", href |-> "sub/a.svg"], <<>>, ""),
      Element("image", [id |-> "ak", href |-> "c.svg"], <<>>, ""),
      Element("title", <<>>, <<>>, "plan") }

\* the roots of file b
DocsB ==
    { Root(<<LineElement("b1", "0", "1"),
             Element("ellipse", [id |-> "b2", rx |-> "2", ry |-> "1"], <<>>, "")>>),
      Root(<<LineElement("b1", "0", "1"),
             Element("image", [id |-> "bi"] @@ (XlinkHref :> "a.svg"), <<>>, ""),
             Element("a", <<>>, <<LineElement("b3", "2", "3")>>, "")>>),
      Root(<<Element("g", [transform |-> "translate()"], <<LineElement("b1", "0", "1")>>, "")>>),
      Root(<<Element("rect", [id |-> "b4", x |-> "?"], <<>>, ""),
             Element("image", [id |-> "bd", href |-> "data:image/png;base64,AA"], <<>>, "")>>),
      Root(<<Element("g", [class |-> "grp", fill |-> "none"],
                     <<Element("image", [id |-> "be", href |-> "e.svg"], <<>>, "")>>, ""),
             LineElement("b5", "0", "1")>>) }

\* the root of file e
DocE ==
    Root(<<Element("line", [id |-> "e1", x2 |-> "1", class |-> "leaf ref", stroke |-> "green"],
                   <<>>, "")>>)

\* the roots of file a
DocsA == {Root(children) : children \in SeqsUpTo(PoolA, MaxElems)}

(***************************************************************************)
(* SvgLoader.load, one action per pass of the loop of _load_internal.      *)
(***************************************************************************)
LoadInit ==
    /\ mapping = with_defaults
    /\ ResolveOff
    /\ wdoc = <<>>
    /\ WriterIdle
    /\ lpc = "idle"
    /\ \E a \in DocsA, b \in DocsB : fs = (PathA :> a) @@ (PathB :> b) @@ (PathE :> DocE)
    /\ frames = <<>>
    /\ visited = {}
    /\ loaded = None
    /\ NoCall

\* the call frame of a document
FrameOf(document, root) ==
    [document |-> document, rules |-> DocumentRules(root),
     stack |-> <<StackEntry(root, document.root_matrix, EmptyDict, <<>>)>>,
     pending |-> None]

\* the call frame _load_internal starts with
NewFrame(path) == FrameOf(NewDocument(path, fs[path]), fs[path])

\* load(path): a new visited set, then _load_internal up to its loop
LoadStart ==
    /\ lpc = "idle"
    /\ \E path \in {PathA, PathB, PathE, PathMissing} :
          IF path \in DOMAIN fs
          THEN /\ lpc' = "running"
               /\ visited' = {path}
               /\ frames' = <<NewFrame(path)>>
               /\ loaded' = None
          ELSE /\ lpc' = "failed"
               /\ visited' = {}
               /\ frames' = <<>>
               /\ loaded' = Some(Raised("OSError"))
    /\ UNCHANGED <<fvars, mapping, rvars, wvars, fs>>

\* the frame with primitives and warnings added to its document
Extended(frame, primitives, notes) ==
    [frame EXCEPT !.document.primitives = @ \o primitives,
                  !.document.warnings = @ \o notes]

\* one pass of the loop of the innermost call
StepElement ==
    /\ lpc = "running"
    /\ frames[Len(frames)].stack # <<>>
    /\ LET n     == Len(frames)
           top   == frames[n]
           entry == top.stack[Len(top.stack)]
           rest  == [top EXCEPT !.stack = SubSeq(top.stack, 1, Len(top.stack) - 1)]
       IN  \E pass \in {Pass(DOMAIN fs, visited, top.document.path, top.rules, entry)} :
              CASE pass.kind = "skip" ->
                      /\ frames' = [frames EXCEPT ![n] = rest]
                      /\ UNCHANGED <<lpc, visited, loaded>>
                [] pass.kind = "push" ->
                      /\ frames' = [frames EXCEPT ![n] = [rest EXCEPT !.stack = @ \o pass.entries]]
                      /\ UNCHANGED <<lpc, visited, loaded>>
                [] pass.kind = "extend" ->
                      /\ frames' = [frames EXCEPT
                                       ![n] = Extended(rest, pass.primitives, pass.warnings)]
                      /\ UNCHANGED <<lpc, visited, loaded>>
                [] pass.kind = "call" ->
                      /\ frames' = Append([frames EXCEPT
                                              ![n] = [rest EXCEPT !.pending = Some(pass.pending)]],
                                          NewFrame(pass.path))
                      /\ visited' = visited \cup {pass.path}
                      /\ UNCHANGED <<lpc, loaded>>
                [] pass.kind = "raise" ->
                      /\ lpc' = "failed"
                      /\ loaded' = Some(Raised(pass.exc))
                      /\ frames' = <<>>
                      /\ UNCHANGED visited
    /\ UNCHANGED <<fvars, mapping, rvars, wvars, fs>>

\* a return of _load_internal that leaves the path in the visited set
visited_remove_Never(seen, path) == seen

\* visited.remove(absolute_path)
visited_remove(seen, path) == seen \ {path}

\* the loop of the innermost call is over: the path leaves the visited set
\* and the document goes to load's caller, or to the _create_image that
\* asked for it
ReturnDocument ==
    /\ lpc = "running"
    /\ frames[Len(frames)].stack = <<>>
    /\ LET n        == Len(frames)
           document == frames[n].document
       IN  /\ visited' = visited_remove(visited, document.path)
           /\ IF n = 1
              THEN /\ lpc' = "done"
                   /\ loaded' = Some(Ok(document))
                   /\ frames' = <<>>
              ELSE \E got \in {EmbeddedResult(The(frames[n - 1].pending).element,
                                              The(frames[n - 1].pending).transform,
                                              The(frames[n - 1].pending).classes,
                                              document)} :
                      /\ frames' = [SubSeq(frames, 1, n - 1) EXCEPT
                                       ![n - 1] = Extended([frames[n - 1] EXCEPT !.pending = None],
                                                           got.primitives, got.warnings)]
                      /\ UNCHANGED <<lpc, loaded>>
    /\ UNCHANGED <<fvars, mapping, rvars, wvars, fs>>

LoadNext == LoadStart \/ StepElement \/ ReturnDocument

SpecLoad == LoadInit /\ [][LoadNext]_vars


(***************************************************************************)
(* Claims about SvgLoader.load, checked under SpecLoad.                    *)
(***************************************************************************)
\* the files the image elements of a tree refer to, those under defs and
\* metadata left out
RECURSIVE RefsIn(_, _)
RefsIn(element, base_dir) ==
    IF LocalName(element) \in {"defs", "metadata"} THEN {}
    ELSE IF LocalName(element) = "image"
         THEN IF IsNone(ImageTarget(element)) THEN {}
              ELSE {resolve_reference_path(DOMAIN fs, base_dir, The(ImageTarget(element)))}
                   \cap DOMAIN fs
    ELSE UNION {RefsIn(element.children[k], base_dir) : k \in 1..Len(element.children)}

\* the files a file embeds
Embeds(path) == RefsIn(fs[path], ParentDir(path))

\* document A embeds a document B that embeds A again
EmbedsItselfThrough(path) == \E other \in Embeds(path) \ {path} : path \in Embeds(other)

\* C1: a load of a document that embeds a document which embeds it again
\* returns no document
C1_CycleReturnsNoDocument ==
    lpc = "done" => ~EmbedsItselfThrough(The(loaded).val.path)

\* C3: a load never aborts because of a numeric attribute that cannot be
\* parsed: a load of a file that exists returns a document
C3_LoadNeverAborts ==
    lpc = "failed" => The(loaded).val = "OSError"

\* the ids of the leaves of a tree in document order, an image replaced by
\* the leaves of the file it embeds; seen: the files being loaded
RECURSIVE DeepOrder(_, _, _)
DeepOrder(element, base_dir, seen) ==
    IF LocalName(element) \in {"g", "svg", "a"}
    THEN LET Walk[k \in 0..Len(element.children)] ==
                 IF k = 0 THEN <<>>
                 ELSE Walk[k - 1] \o DeepOrder(element.children[k], base_dir, seen)
         IN  Walk[Len(element.children)]
    ELSE IF LocalName(element) = "image"
         THEN LET refs == RefsIn(element, base_dir) \ seen
              IN  IF refs = {} THEN <<>>
                  ELSE LET target == CHOOSE r \in refs : TRUE
                       IN  DeepOrder(fs[target], ParentDir(target), seen \cup {target})
    ELSE <<AttrGet(element, "id")>>

\* whether the sequence s, from its i-th term on, lies in t from its j-th
\* term on, in the same order
RECURSIVE LiesIn(_, _, _, _)
LiesIn(s, i, t, j) ==
    IF i > Len(s) THEN TRUE
    ELSE IF j > Len(t) THEN FALSE
    ELSE IF s[i] = t[j] THEN LiesIn(s, i + 1, t, j + 1)
    ELSE LiesIn(s, i, t, j + 1)

\* the element ids of the primitives of a document
IdsOf(primitives) == [k \in 1..Len(primitives) |-> primitives[k].element_id]

\* C4: the primitives of a loaded document are in depth-first document
\* order, those of an embedded document together where the image element is
C4_DocumentOrder ==
    lpc = "done" =>
        LET document == The(loaded).val
        IN  LiesIn(IdsOf(document.primitives), 1,
                   DeepOrder(fs[document.path], ParentDir(document.path), {document.path}), 1)

\* a document loaded with the primitives of a group and, after them, those
\* of an embedded document
C4_Witness ==
    /\ lpc = "done"
    /\ IdsOf(The(loaded).val.primitives) = <<Some("a5"), Some("a6"), Some("b1"), Some("b2")>>

\* the file the image element of a stack entry of the document at path
\* refers to: None when the entry is no image element or _create_image
\* returns nothing for it before it looks for a file
ReferredFile(path, entry) ==
    IF LocalName(entry.element) # "image" \/ IsNone(ImageTarget(entry.element))
       \/ ~parse_transform(AttrGet(entry.element, "transform")).ok
    THEN None
    ELSE Some(resolve_reference_path(DOMAIN fs, ParentDir(path),
                                     The(ImageTarget(entry.element))))

\* the pass of the loop about to be made is over an image element whose
\* file cannot be found, or is being loaded already
RefusedImage ==
    /\ lpc = "running"
    /\ frames[Len(frames)].stack # <<>>
    /\ \E file \in {ReferredFile(frames[Len(frames)].document.path,
                                 frames[Len(frames)].stack[Len(frames[Len(frames)].stack)])} :
          file # None /\ (The(file) \notin DOMAIN fs \/ The(file) \in visited)

\* the innermost document gains one warning and no primitive, and the calls
\* around it stay as they are
OneWarningNoPrimitive ==
    /\ lpc' = "running"
    /\ Len(frames') = Len(frames)
    /\ SubSeq(frames', 1, Len(frames) - 1) = SubSeq(frames, 1, Len(frames) - 1)
    /\ frames'[Len(frames)].document.primitives = frames[Len(frames)].document.primitives
    /\ Len(frames'[Len(frames)].document.warnings)
          = Len(frames[Len(frames)].document.warnings) + 1

\* the chains of elements, outermost first, that lead from an element down
\* to the leaves with the given id that the loop reaches; above: the chain
\* down to the element's parent
RECURSIVE ChainsTo(_, _, _)
ChainsTo(element, id, above) ==
    IF LocalName(element) \in {"defs", "metadata"} THEN {}
    ELSE IF LocalName(element) \in {"g", "svg", "a"}
         THEN UNION {ChainsTo(element.children[k], id, Append(above, element)) :
                        k \in 1..Len(element.children)}
    ELSE IF AttrGet(element, "id") = id THEN {Append(above, element)} ELSE {}

\* the style of the leaf of a chain: for each key the value of the
\* innermost element of the chain that has one
ChainStyle(rules, chain) ==
    LET Own(k)  == StyleResolve(rules, chain[k])
        keys    == UNION {DOMAIN Own(k) : k \in 1..Len(chain)}
        Last(x) == CHOOSE k \in 1..Len(chain) :
                       /\ x \in DOMAIN Own(k)
                       /\ \A j \in (k + 1)..Len(chain) : x \notin DOMAIN Own(j)
    IN  [x \in keys |-> Own(Last(x))[x]]

\* the classes of the elements of a chain, from the k-th element on
RECURSIVE ClassesAlong(_, _)
ClassesAlong(chain, k) ==
    IF k > Len(chain) THEN <<>>
    ELSE extract_classes(chain[k]) \o ClassesAlong(chain, k + 1)

\* a sequence without the terms that occurred in it before
FirstOccurrences(s) ==
    LET Keep[i \in 0..Len(s)] ==
            IF i = 0 THEN <<>>
            ELSE IF \E j \in 1..(i - 1) : s[j] = s[i] THEN Keep[i - 1]
            ELSE Append(Keep[i - 1], s[i])
    IN  Keep[Len(s)]

\* the primitives made of the elements of the document's own tree have the
\* style and the classes of their chain
OwnChain(document, rules) ==
    \A k \in 1..Len(document.primitives) :
        LET p      == document.primitives[k]
            chains == ChainsTo(fs[document.path], p.element_id, <<>>)
        IN  chains # {} =>
                \E chain \in chains :
                    /\ p.style = ChainStyle(rules, chain)
                    /\ p.classes = FirstOccurrences(ClassesAlong(chain, 1))

\* C23: the style and the classes of a primitive are those of the chain of
\* elements from the root down to its element: per style key the value of
\* the innermost element that has one, and the classes of the chain from
\* the outermost element on, each at its first place; nothing of an
\* element outside the chain is in them
C23_AncestorChainOnly ==
    /\ lpc = "running" =>
           \A n \in 1..Len(frames) : OwnChain(frames[n].document, frames[n].rules)
    /\ lpc = "done" =>
           OwnChain(The(loaded).val, DocumentRules(fs[The(loaded).val.path]))

\* a group of two and a line after it: the circle overrides the stroke of
\* the group and repeats its class, the line has nothing of the group
C23_Witness ==
    /\ lpc = "done"
    /\ IdsOf(The(loaded).val.primitives) = <<Some("a5"), Some("a6"), Some("a1")>>
    /\ The(loaded).val.primitives[1].style
          = [fill |-> "none", stroke |-> "red"] @@ ("stroke-width" :> "2")
    /\ The(loaded).val.primitives[2].style = [stroke |-> "blue"] @@ ("stroke-width" :> "2")
    /\ The(loaded).val.primitives[2].classes = <<"IfcWall", "material-steel">>
    /\ The(loaded).val.primitives[3].style = EmptyDict
    /\ The(loaded).val.primitives[3].classes = <<>>

\* the elements of a tree that lie in a defs or metadata element, those
\* elements themselves included; inside: whether the tree itself lies in one
RECURSIVE HiddenIn(_, _)
HiddenIn(element, inside) ==
    LET hid == inside \/ LocalName(element) \in {"defs", "metadata"}
    IN  (IF hid THEN {element} ELSE {})
        \cup UNION {HiddenIn(element.children[k], hid) : k \in 1..Len(element.children)}

\* the line, rect, circle and ellipse elements of a tree outside defs and
\* metadata
RECURSIVE PlainIn(_)
PlainIn(element) ==
    IF LocalName(element) \in {"defs", "metadata"} THEN {}
    ELSE IF LocalName(element) \in {"g", "svg", "a"}
         THEN UNION {PlainIn(element.children[k]) : k \in 1..Len(element.children)}
    ELSE IF LocalName(element) \in {"line", "rect", "circle", "ellipse"} THEN {element}
    ELSE {}

\* the warning about a file that is not found
MissingWarning(element) == "missing " \o Strip(The(ImageHref(element)))

\* a document has neither a primitive nor a warning of an element that
\* lies in a defs or metadata element of its tree
NothingHidden(document) ==
    \A element \in HiddenIn(fs[document.path], FALSE) :
        /\ \A k \in 1..Len(document.primitives) :
               document.primitives[k].element_id # AttrGet(element, "id")
        /\ LocalName(element) = "image" =>
               \A k \in 1..Len(document.warnings) :
                   document.warnings[k] # MissingWarning(element)

\* C24: no primitive and no warning of a document comes from a defs or
\* metadata element or from an element below one, at any depth; the document
\* a load returns has a primitive of, or a warning about, every line, rect,
\* circle and ellipse element outside them
C24_DefsSkipped ==
    /\ lpc = "running" => \A n \in 1..Len(frames) : NothingHidden(frames[n].document)
    /\ lpc = "done" =>
           /\ NothingHidden(The(loaded).val)
           /\ \A element \in PlainIn(fs[The(loaded).val.path]) :
                  \/ \E k \in 1..Len(The(loaded).val.primitives) :
                         The(loaded).val.primitives[k].element_id = AttrGet(element, "id")
                  \/ \E k \in 1..Len(The(loaded).val.warnings) :
                         The(loaded).val.warnings[k]
                            = LocalName(element) \o " parse failure id=" \o IdText(element)

\* a document with a defs element, which holds a line in a group and an
\* image element of a file that is not found, and a line after it
C24_Witness ==
    /\ lpc = "done"
    /\ \E k \in 1..Len(fs[PathA].children) : LocalName(fs[PathA].children[k]) = "defs"
    /\ The(loaded).val.path = PathA
    /\ IdsOf(The(loaded).val.primitives) = <<Some("a1")>>
    /\ The(loaded).val.warnings = <<>>

\* a nested load returns to the _create_image that asked for it
NestedReturn ==
    /\ lpc = "running"
    /\ Len(frames) > 1
    /\ frames[Len(frames)].stack = <<>>

\* the classes of an embedded primitive: those of the image element, then
\* its own ones that are not among them
ImageThenOwn(image_classes, own) ==
    image_classes
        \o SelectSeq(own, LAMBDA c : \A j \in 1..Len(image_classes) : image_classes[j] # c)

\* what the referencing document gains when the nested load returns:
\* the primitives of the embedded document one by one, and its warnings
\* after the note about the load
GainsEmbedded ==
    LET n        == Len(frames)
        embedded == frames[n].document
        before   == frames[n - 1].document
        after    == frames'[n - 1].document
        image    == The(frames[n - 1].pending)
        p0       == Len(before.primitives)
        w0       == Len(before.warnings)
    IN  /\ Len(frames') = n - 1
        /\ Len(after.primitives) = p0 + Len(embedded.primitives)
        /\ SubSeq(after.primitives, 1, p0) = before.primitives
        /\ \A k \in 1..Len(embedded.primitives) :
               /\ after.primitives[p0 + k].classes
                     = ImageThenOwn(image.classes, embedded.primitives[k].classes)
               /\ after.primitives[p0 + k].style = embedded.primitives[k].style
               /\ after.primitives[p0 + k].kind = embedded.primitives[k].kind
               /\ after.primitives[p0 + k].element_id = embedded.primitives[k].element_id
        /\ Len(after.warnings) = w0 + 1 + Len(embedded.warnings)
        /\ SubSeq(after.warnings, 1, w0) = before.warnings
        /\ \A k \in 1..Len(embedded.warnings) :
               after.warnings[w0 + 1 + k]
                  = BaseName(embedded.path) \o ": " \o embedded.warnings[k]

\* C26: when a nested load returns, the referencing document gains every
\* primitive of the embedded document with the classes of the image element
\* first and the primitive's own classes after them, each class once, and
\* with its style, kind and id as they were; it gains every warning of the
\* embedded document, under the embedded file's name
C26_EmbeddedClassesAndWarnings ==
    [][NestedReturn => GainsEmbedded]_vars

\* file a has loaded file b through an image element of classes ref, and
\* file b has loaded file e through an image element in a group of class
\* grp and has a warning of its own; the line of file e has its own classes
\* leaf and ref
C26_Witness ==
    /\ lpc = "done"
    /\ The(loaded).val.path = PathA
    /\ \E k \in 1..Len(The(loaded).val.primitives) :
          /\ The(loaded).val.primitives[k].element_id = Some("e1")
          /\ The(loaded).val.primitives[k].classes = <<"ref", "grp", "leaf">>
          /\ The(loaded).val.primitives[k].style = [stroke |-> "green"]
    /\ \E k \in 1..Len(The(loaded).val.warnings) :
          StartsWith(The(loaded).val.warnings[k], "b.svg: ")

\* the paths of the documents being loaded, outermost first
StackPaths == [k \in 1..Len(frames) |-> frames[k].document.path]

\* the pass of the loop about to be made is over an image element whose
\* file exists and is not being loaded
ImageOffStack ==
    /\ lpc = "running"
    /\ frames[Len(frames)].stack # <<>>
    /\ \E file \in {ReferredFile(frames[Len(frames)].document.path,
                                 frames[Len(frames)].stack[Len(frames[Len(frames)].stack)])} :
          /\ file # None
          /\ The(file) \in DOMAIN fs
          /\ \A k \in 1..Len(frames) : StackPaths[k] # The(file)

\* C25: while a load runs, the visited set holds the paths of the documents
\* being loaded and no other, each of them once; an image element whose
\* file exists and is not being loaded starts a load of it, however often
\* the file was loaded before; the set is empty when load returns
C25_VisitedIsStack ==
    /\ [](lpc = "running" =>
            /\ visited = {StackPaths[k] : k \in 1..Len(frames)}
            /\ Cardinality(visited) = Len(frames))
    /\ [](lpc = "done" => visited = {})
    /\ [][ImageOffStack =>
            /\ Len(frames') = Len(frames) + 1
            /\ frames'[Len(frames')].document.path \in visited' \ visited]_vars

\* file e was embedded by file b and, after that, by file a, which embeds
\* file b as well
C25_Witness ==
    /\ lpc = "done"
    /\ The(loaded).val.path = PathA
    /\ IdsOf(The(loaded).val.primitives) = <<Some("e1"), Some("b5"), Some("e1")>>
    /\ visited = {}

\* C18: an image element whose embedded document cannot be found, or whose
\* load fails, contributes one warning and no primitive, and the load goes
\* on to return normally: a pass over an image whose file is missing or
\* being loaded already adds one warning and nothing else, and no step made
\* while an embedded document is being loaded ends the load
C18_EmbedFailureIsWarning ==
    [][/\ RefusedImage => OneWarningNoPrimitive
       /\ (lpc = "running" /\ Len(frames) >= 2) => lpc' = "running"]_vars

(***************************************************************************)
(* path_parser.py: simplify_polyline.  Points are pairs of whole grid      *)
(* steps, GridPerUnit steps to the SVG unit.                               *)
(***************************************************************************)
\* the longest point list handed to simplify_polyline
MaxPoints == 4

GridPerUnit == 40

\* min_segment = 0.05, in grid steps
min_segment == GridPerUnit \div 20

\* tan(angle_tol) for angle_tol = 0.5 degrees, as <<numerator, denominator>>
AngleTolTan == <<1000, 114589>>

\* angle(p_prev, p_curr, p_next) > angle_tol.  angle is 180.0 next to a
\* segment shorter than min_segment; else the turn is wider than angle_tol
\* when its tangent |cross| / dot is (a turn whose tangent is over 1/100 is)
TurnExceeds(p_prev, p_curr, p_next) ==
    LET v1    == <<p_curr[1] - p_prev[1], p_curr[2] - p_prev[2]>>
        v2    == <<p_next[1] - p_curr[1], p_next[2] - p_curr[2]>>
        sq1   == v1[1] * v1[1] + v1[2] * v1[2]
        sq2   == v2[1] * v2[1] + v2[2] * v2[2]
        dot   == v1[1] * v2[1] + v1[2] * v2[2]
        cross == Abs(v1[1] * v2[2] - v1[2] * v2[1])
    IN  IF sq1 < min_segment * min_segment \/ sq2 < min_segment * min_segment THEN TRUE
        ELSE IF dot <= 0 THEN TRUE
        ELSE IF cross * 100 > dot THEN TRUE
        ELSE cross * AngleTolTan[2] > dot * AngleTolTan[1]

\* the points pts[i..last] whose turn is wider than angle_tol, the
\* neighbours taken from pts itself ((i + 1) % total after the last)
RECURSIVE Retained(_, _, _)
Retained(pts, i, last) ==
    IF i > last THEN <<>>
    ELSE (IF TurnExceeds(pts[i - 1], pts[i], pts[(i % Len(pts)) + 1])
          THEN <<pts[i]>> ELSE <<>>) \o Retained(pts, i + 1, last)

\* the closing step left out
CloseRing_Never(simplified) == simplified

\* if simplified[0] != simplified[-1]: simplified.append(simplified[0])
CloseRing(simplified) ==
    IF simplified[1] # simplified[Len(simplified)]
    THEN Append(simplified, simplified[1]) ELSE simplified

\* points[:-1] if points[0] == points[-1] else points
CorePoints(points) ==
    IF points[1] = points[Len(points)] THEN SubSeq(points, 1, Len(points) - 1) ELSE points

\* simplify_polyline(points, closed=closed)
simplify_polyline(points, closed) ==
    IF Len(points) < 3 THEN points
    ELSE IF closed
         THEN CloseRing(<<CorePoints(points)[1]>>
                        \o Retained(CorePoints(points), 2, Len(CorePoints(points))))
    ELSE <<points[1]>> \o Retained(points, 2, Len(points) - 1) \o <<points[Len(points)]>>

\* the points the lists are made of: a long nearly straight run, a step
\* shorter than min_segment, and a corner
SimplifyPoints ==
    { <<0, 0>>, <<100, 0>>, <<200, 1>>, <<400, 2>>, <<1, 0>>, <<100, 50>> }

SimplifyInit ==
    /\ mapping = with_defaults
    /\ ResolveOff
    /\ wdoc = <<>>
    /\ WriterIdle
    /\ LoaderIdle
    /\ \E pts \in SeqsUpTo(SimplifyPoints, MaxPoints), closed \in BOOLEAN :
          fcall = Some([fn |-> "simplify_polyline", points |-> pts, closed |-> closed,
                        pass |-> 1])
    /\ fret = None

\* simplify_polyline is called
Simplify ==
    /\ fcall # None /\ fret = None
    /\ The(fcall).fn = "simplify_polyline"
    /\ fret' = Some(simplify_polyline(The(fcall).points, The(fcall).closed))
    /\ UNCHANGED <<mapping, rvars, wvars, lvars, fcall>>

\* what it returned is handed to it again, with the same closed flag
SimplifyAgain ==
    /\ fcall # None /\ fret # None
    /\ The(fcall).fn = "simplify_polyline" /\ The(fcall).pass = 1
    /\ fcall' = Some([The(fcall) EXCEPT !.points = The(fret), !.pass = 2])
    /\ fret' = Some(simplify_polyline(The(fret), The(fcall).closed))
    /\ UNCHANGED <<mapping, rvars, wvars, lvars>>

SimplifyNext == Simplify \/ SimplifyAgain

SpecSimplify == SimplifyInit /\ [][SimplifyNext]_vars

(***************************************************************************)
(* Claims about simplify_polyline, checked under SpecSimplify.             *)
(***************************************************************************)
Simplified == fcall # None /\ fret # None /\ The(fcall).fn = "simplify_polyline"

\* C12 as stated: whatever the length of the point list, what
\* simplify_polyline returns for closed=True begins and ends with the same
\* point
C12_ClosedAnyLength ==
    (Simplified /\ The(fcall).closed /\ Len(The(fret)) > 0)
        => The(fret)[1] = The(fret)[Len(The(fret))]

\* C12 amended: for a list of at least 3 points and closed=True the
\* returned list begins and ends with the same point, whether or not the
\* input repeats its first point at the end; a shorter list is returned as
\* it is
C12_ClosedRing ==
    (Simplified /\ The(fcall).closed)
        => IF Len(The(fcall).points) >= 3
           THEN The(fret)[1] = The(fret)[Len(The(fret))]
           ELSE The(fret) = The(fcall).points

\* a closed list of 4 points that does not repeat its first point has come
\* back with the first point added at its end
C12_Witness ==
    /\ Simplified /\ The(fcall).closed /\ The(fcall).pass = 1
    /\ LET points == The(fcall).points
       IN  /\ Len(points) = 4 /\ points[1] # points[4]
           /\ Len(The(fret)) = 5
           /\ The(fret)[5] = points[1]

\* C13: simplifying what simplify_polyline returned, with the same
\* tolerance and closed flag, returns an identical point list
C13_Idempotent ==
    (Simplified /\ The(fcall).pass = 2) => The(fret) = The(fcall).points

(***************************************************************************)
(* mapping.py: parse_color_spec called on its own.                         *)
(***************************************************************************)
\* the values handed to parse_color_spec: None or Some(text)
ColourValues ==
    {None} \cup
    { Some(v) : v \in
        { "", "  ", "bylayer", "ByBlock", " BYLAYER ", "#fff", "#FFFFFF", "#a1b2c3",
          " #AbC ", "#12", "#ggg", "#", "#1234567", "#+12345", "#0x1234", "#1_2345",
          "red", "Gray", " Cyan ", "lightgray", "teal", "none", "rgb(1,2,3)",
          "7", "255", "0", "256", "12ab" } }

\* the fallbacks of its callers: none (normalize_color) or the colour of the
\* style (_material_attributes)
ColourFallbacks == {None, Some("BYLAYER"), Some("#123456")}

ColourInit ==
    /\ mapping = with_defaults
    /\ ResolveOff
    /\ wdoc = <<>>
    /\ WriterIdle
    /\ LoaderIdle
    /\ \E value \in ColourValues, fallback \in ColourFallbacks :
          fcall = Some([fn |-> "parse_color_spec", value |-> value,
                        fallback |-> fallback, pass |-> 1])
    /\ fret = None

\* parse_color_spec is called
NormalizeColour ==
    /\ fcall # None /\ fret = None
    /\ The(fcall).fn = "parse_color_spec"
    /\ fret' = Some(parse_color_spec(The(fcall).value, The(fcall).fallback))
    /\ UNCHANGED <<mapping, rvars, wvars, lvars, fcall>>

\* the colour it returned is handed to it again, with the same fallback
NormalizeColourAgain ==
    /\ fcall # None /\ fret # None
    /\ The(fcall).fn = "parse_color_spec" /\ The(fcall).pass = 1
    /\ The(fret) # None
    /\ fcall' = Some([The(fcall) EXCEPT !.value = The(fret), !.pass = 2])
    /\ fret' = Some(parse_color_spec(The(fret), The(fcall).fallback))
    /\ UNCHANGED <<mapping, rvars, wvars, lvars>>

ColourNext == NormalizeColour \/ NormalizeColourAgain

SpecColour == ColourInit /\ [][ColourNext]_vars

(***************************************************************************)
(* Claims about colour normalisation, checked under SpecColour.            *)
(***************************************************************************)
ColourReturned == fcall # None /\ fret # None /\ The(fcall).fn = "parse_color_spec"

\* "#" followed by 3 or 6 hex digits
IsHexColour(spec) ==
    /\ Len(spec) \in {4, 7} /\ Ch(spec, 1) = "#"
    /\ \A i \in 2..Len(spec) : Ch(spec, i) \in Chars(HexDigits)

\* the upper-case 6-digit form of a hex colour
SixDigitUpper(spec) ==
    IF Len(spec) = 7 THEN Upper(spec)
    ELSE Upper("#" \o Ch(spec, 2) \o Ch(spec, 2) \o Ch(spec, 3) \o Ch(spec, 3)
                   \o Ch(spec, 4) \o Ch(spec, 4))

\* a decimal index 1..255
IsColourIndex(spec) ==
    /\ spec # "" /\ Len(spec) <= 3 /\ AllDigits(spec)
    /\ DigitsVal(spec) >= 1 /\ DigitsVal(spec) <= 255

\* C14: colour normalisation maps BYLAYER and BYBLOCK in any case to the
\* upper-case literal, #RGB and #RRGGBB to upper-case 6-digit hex, a name of
\* the CSS table to its hex, accepts a numeric index string 1-255, and
\* returns the fallback for any other value
C14_AcceptedForms ==
    (ColourReturned /\ The(fcall).pass = 1)
        => LET fallback == The(fcall).fallback
               out      == The(fret)
               spec     == IF IsNone(The(fcall).value) THEN ""
                           ELSE Strip(The(The(fcall).value))
           IN  CASE Lower(spec) \in {"bylayer", "byblock"} -> out = Some(Upper(spec))
                 [] IsHexColour(spec) -> out = Some(SixDigitUpper(spec))
                 [] ~IsNone(CSS_COLOR_MAP(Lower(spec))) -> out = CSS_COLOR_MAP(Lower(spec))
                 [] IsColourIndex(spec) -> out = Some(spec)
                 [] OTHER -> out = fallback

\* C15: normalising #fff gives #FFFFFF, normalising #FFFFFF gives #FFFFFF,
\* and a normalised value that is not the fallback is normalised to itself
C15_NormalisedFixedPoint ==
    ColourReturned =>
        /\ (The(fcall).pass = 1 /\ The(fcall).value = Some("#fff"))
              => The(fret) = Some("#FFFFFF")
        /\ (The(fcall).pass = 1 /\ The(fcall).value = Some("#FFFFFF"))
              => The(fret) = Some("#FFFFFF")
        /\ (The(fcall).pass = 2 /\ The(fcall).value # The(fcall).fallback)
              => The(fret) = The(fcall).value

\* #FFFFFF, the normalised value of #fff, has been normalised again
C15_Witness ==
    /\ ColourReturned /\ The(fcall).pass = 2
    /\ The(fcall).value = Some("#FFFFFF")
    /\ The(fcall).fallback = Some("BYLAYER")
    /\ The(fret) = Some("#FFFFFF")

(***************************************************************************)
(* transform_utils.py: parse_transform called on a transform list, and the *)
(* matrix it returns applied to a point.                                   *)
(***************************************************************************)
\* the longest transform list
MaxTokens == 3

\* the tokens of the transform lists: known commands, a known command in
\* upper case, and unknown names with numeric and with other arguments
TransformTokens ==
    { "translate(10,0)", "scale(2,2)", "translate(5)", "SCALE(2)", "rotate(90)",
      "skewX(45)", "matrix(1,0,0,1,2,3)", "foo(1)", "ref(a)" }

\* the tokens of a list, blank-separated
RECURSIVE TransformText(_)
TransformText(tokens) ==
    IF tokens = <<>> THEN ""
    ELSE IF Len(tokens) = 1 THEN tokens[1]
    ELSE tokens[1] \o " " \o TransformText(Tail(tokens))

\* the point the matrices are applied to
UnitPoint == <<FixedOne, FixedOne>>

TransformInit ==
    /\ mapping = with_defaults
    /\ ResolveOff
    /\ wdoc = <<>>
    /\ WriterIdle
    /\ LoaderIdle
    /\ \E tokens \in SeqsUpTo(TransformTokens, MaxTokens) :
          fcall = Some([fn |-> "parse_transform", tokens |-> tokens,
                        transform |-> Some(TransformText(tokens))])
    /\ fret = None

\* parse_transform is called on the text of the list
ParseTransform ==
    /\ fcall # None /\ fret = None
    /\ The(fcall).fn = "parse_transform"
    /\ fret' = Some(parse_transform(The(fcall).transform))
    /\ UNCHANGED <<mapping, rvars, wvars, lvars, fcall>>

\* transform_point is called with the matrix parse_transform returned
TransformPoint ==
    /\ fcall # None /\ fret # None
    /\ The(fcall).fn = "parse_transform" /\ The(fret).ok
    /\ fcall' = Some([fn |-> "transform_point", tokens |-> The(fcall).tokens,
                      matrix |-> The(fret).val, point |-> UnitPoint])
    /\ fret' = Some(transform_point(The(fret).val, UnitPoint))
    /\ UNCHANGED <<mapping, rvars, wvars, lvars>>

TransformNext == ParseTransform \/ TransformPoint

SpecTransform == TransformInit /\ [][TransformNext]_vars

(***************************************************************************)
(* Claims about parse_transform, checked under SpecTransform.              *)
(***************************************************************************)
\* the matrix M(t) of a token; the identity for an unknown name
TokenMatrix(token) ==
    CASE token = "translate(10,0)" -> << <<FixedOne, 0, 10 * FixedOne>>, <<0, FixedOne, 0>> >>
      [] token = "translate(5)" -> << <<FixedOne, 0, 5 * FixedOne>>, <<0, FixedOne, 0>> >>
      [] token \in {"scale(2,2)", "SCALE(2)"} ->
            << <<2 * FixedOne, 0, 0>>, <<0, 2 * FixedOne, 0>> >>
      [] token = "rotate(90)" -> << <<0, 0 - FixedOne, 0>>, <<FixedOne, 0, 0>> >>
      [] token = "skewX(45)" -> << <<FixedOne, FixedOne, 0>>, <<0, FixedOne, 0>> >>
      [] token = "matrix(1,0,0,1,2,3)" ->
            << <<FixedOne, 0, 2 * FixedOne>>, <<0, FixedOne, 3 * FixedOne>> >>
      [] OTHER -> << <<FixedOne, 0, 0>>, <<0, FixedOne, 0>> >>

\* the image of a point under one matrix, coordinates in whole units
ImageUnder(m, p) ==
    << (m[1][1] \div FixedOne) * p[1] + (m[1][2] \div FixedOne) * p[2] + m[1][3],
       (m[2][1] \div FixedOne) * p[1] + (m[2][2] \div FixedOne) * p[2] + m[2][3] >>

\* the point after the tokens have been applied one by one, the last token
\* of the list first and the first token last
RECURSIVE AppliedLastFirst(_, _)
AppliedLastFirst(tokens, p) ==
    IF tokens = <<>> THEN p
    ELSE ImageUnder(TokenMatrix(tokens[1]), AppliedLastFirst(Tail(tokens), p))

\* C16: the matrix parse_transform returns for a transform list maps a point
\* as the tokens do when they are applied one after the other, the last one
\* first (the product M(t1)*...*M(tn)); translate(10,0) scale(2,2) maps
\* (1,1) to (12,2); a token with an unknown name counts as the identity
C16_ComposesLeftToRight ==
    /\ (fcall # None /\ fret # None /\ The(fcall).fn = "parse_transform")
          => /\ The(fret).ok
             /\ \A x, y \in {0, FixedOne, 3 * FixedOne} :
                   transform_point(The(fret).val, <<x, y>>)
                      = AppliedLastFirst(The(fcall).tokens, <<x, y>>)
    /\ (fcall # None /\ fret # None /\ The(fcall).fn = "transform_point"
        /\ The(fcall).tokens = <<"translate(10,0)", "scale(2,2)">>)
          => The(fret) = <<12 * FixedOne, 2 * FixedOne>>


(***************************************************************************)
(* style_resolver.py: StyleResolver.resolve as a function of the sheet     *)
(* rules, the element and the caller's extra style.                        *)
(***************************************************************************)
MaxSheetRules == 3

\* StyleResolver.resolve(element, extra_style)
StyleResolver_resolve(rules, element, extra_style) ==
    IF extra_style # None /\ The(extra_style) # EmptyDict
    THEN Update(StyleResolve(rules, element), The(extra_style))
    ELSE StyleResolve(rules, element)

\* sheet rules: universal, tag, class and id selectors
SheetRules ==
    { CssRule("universal", "*", "stroke" :> "u"),
      CssRule("tag", "line", ("stroke" :> "t") @@ ("fill" :> "tf")),
      CssRule("tag", "rect", ("stroke" :> "n") @@ ("opacity" :> "n")),
      CssRule("class", "a", "stroke" :> "c"),
      CssRule("class", "zz", "fill" :> "z"),
      CssRule("id", "e1", ("stroke" :> "i") @@ ("opacity" :> "1")) }

\* the rule lists of at most MaxSheetRules rules
SheetRuleLists ==
    UNION { [1..n -> SheetRules] : n \in 0..MaxSheetRules }

\* elements to resolve
StyledElements ==
    { Element("line", attrs, <<>>, "") :
        attrs \in { EmptyDict,
                    ("class" :> "a b") @@ ("id" :> "e1"),
                    "stroke" :> "as",
                    ("stroke" :> "as") @@ ("style" :> "stroke: is; fill:if"),
                    "style" :> "stroke:is",
                    ("class" :> "a") @@ ("id" :> "e1") @@ ("stroke" :> "as")
                        @@ ("style" :> "stroke:is"),
                    ("style" :> "") @@ ("fill" :> "af") @@ ("id" :> ""),
                    ("class" :> "zzz") @@ ("fill-rule" :> "evenodd") } }

\* the caller's extra style
ExtraStyles ==
    { None, Some(EmptyDict), Some("stroke" :> "xs"), Some("width" :> "xw") }

StyleInit ==
    /\ mapping = with_defaults
    /\ ResolveOff
    /\ wdoc = <<>>
    /\ WriterIdle
    /\ LoaderIdle
    /\ \E sheet \in SheetRuleLists, element \in StyledElements, extra \in ExtraStyles :
          fcall = Some([fn |-> "resolve", rules |-> sheet, element |-> element,
                        extra_style |-> extra])
    /\ fret = None

\* StyleResolver.resolve is called
ResolveStyle ==
    /\ fcall # None /\ fret = None
    /\ The(fcall).fn = "resolve"
    /\ fret' = Some(StyleResolver_resolve(The(fcall).rules, The(fcall).element, The(fcall).extra_style))
    /\ UNCHANGED <<mapping, rvars, wvars, lvars, fcall>>

StyleNext == ResolveStyle

SpecStyle == StyleInit /\ [][StyleNext]_vars

\* the four sources of a call, lowest priority first: what each defines
ExtraSource(call) ==
    IF call.extra_style = None THEN EmptyDict ELSE The(call.extra_style)

InlineSource(call) ==
    IF Has(call.element.attrs, "style")
    THEN parse_inline_style(call.element.attrs["style"]) ELSE EmptyDict

AttributeSource(call) ==
    [k \in {"stroke", "stroke-width", "stroke-dasharray", "fill", "fill-rule"}
            \cap DOMAIN call.element.attrs |-> call.element.attrs[k]]

\* the positions of the matching rules that define key
MatchingWith(call, key) ==
    { i \in 1..Len(call.rules) :
        RuleApplies(call.rules[i], call.element) /\ Has(call.rules[i].properties, key) }

\* the last of a non-empty set of positions
LastOf(positions) == CHOOSE i \in positions : \A j \in positions : j <= i

\* the keys some source defines
DefinedKeys(call) ==
    DOMAIN ExtraSource(call) \cup DOMAIN InlineSource(call) \cup DOMAIN AttributeSource(call)
        \cup { k \in UNION { DOMAIN call.rules[i].properties : i \in 1..Len(call.rules) } :
                 MatchingWith(call, k) # {} }

\* the value of key in the highest-priority source that defines it
PriorityValue(call, key) ==
    IF Has(ExtraSource(call), key) THEN ExtraSource(call)[key]
    ELSE IF Has(InlineSource(call), key) THEN InlineSource(call)[key]
    ELSE IF Has(AttributeSource(call), key) THEN AttributeSource(call)[key]
    ELSE call.rules[LastOf(MatchingWith(call, key))].properties[key]

StyleResolved == fcall # None /\ fret # None /\ The(fcall).fn = "resolve"

\* C17: resolve returns exactly the keys some source defines, each with the
\* value of the highest-priority source defining it: matching sheet rules in
\* list order (a later one over an earlier one), then the presentation
\* attributes, then the inline style declaration, then the caller's extra
\* style; a rule that does not match contributes nothing.
C17_CascadePriority ==
    StyleResolved =>
        /\ DOMAIN The(fret) = DefinedKeys(The(fcall))
        /\ \A key \in DOMAIN The(fret) : The(fret)[key] = PriorityValue(The(fcall), key)

\* a call where two matching rules, a rule that does not match, the
\* presentation attributes and the inline declaration all define stroke,
\* with and without an extra style defining it
C17_Witness ==
    /\ StyleResolved
    /\ Len(The(fcall).rules) = 3
    /\ Cardinality(MatchingWith(The(fcall), "stroke")) = 2
    /\ \E i \in 1..3 : /\ ~RuleApplies(The(fcall).rules[i], The(fcall).element)
                       /\ Has(The(fcall).rules[i].properties, "stroke")
    /\ Has(AttributeSource(The(fcall)), "stroke")
    /\ Has(InlineSource(The(fcall)), "stroke")
    /\ The(fret)["stroke"] = "is"
    /\ Has(The(fret), "fill")


(***************************************************************************)
(* Circles and ellipses from the element to the entity: _create_circle or  *)
(* _create_ellipse under a scaling, then _write_circle or _write_ellipse.  *)
(***************************************************************************)
\* circle and ellipse elements
RoundElements ==
    { Element("circle", [id |-> "c", cx |-> "1", cy |-> "2", r |-> r], <<>>, "") :
        r \in {"5", "0", "2.5", "-5", "x"} }
    \cup
    { Element("ellipse", [id |-> "e", cx |-> "1", cy |-> "2", rx |-> rx, ry |-> ry], <<>>, "") :
        rx \in {"0", "1", "2"}, ry \in {"0", "1", "1.001", "1.002", "2", "?"} }

\* the accumulated transforms: a scaling, after a translation or not
RoundTransforms ==
    { multiply(shift, scale_matrix(sx, sy)) :
        shift \in {identity_matrix, translation_matrix(Milli(3000), 0)},
        sx \in {0, Milli(1000), Milli(1001), Milli(2000), 0 - Milli(1000)},
        sy \in {0, Milli(1000), Milli(1002), Milli(2000)} }

\* the attributes the writer resolved for the primitive
RoundAttrs == [layer |-> "0"]

RoundInit ==
    /\ mapping = with_defaults
    /\ ResolveOff
    /\ wdoc = <<>>
    /\ WriterIdle
    /\ LoaderIdle
    /\ \E element \in RoundElements, transform \in RoundTransforms :
          fcall = Some([fn |-> "round", element |-> element, transform |-> transform,
                        primitive |-> None])
    /\ fret = None

\* _create_circle or _create_ellipse is called for the element
CreateRound ==
    /\ fcall # None /\ fret = None
    /\ The(fcall).fn = "round"
    /\ fret' = Some(IF The(fcall).element.tag = "circle"
                    THEN _create_circle(The(fcall).element, The(fcall).transform,
                                        EmptyDict, <<>>)
                    ELSE _create_ellipse(The(fcall).element, The(fcall).transform,
                                         EmptyDict, <<>>))
    /\ UNCHANGED <<mapping, rvars, wvars, lvars, fcall>>

\* the primitive it returned goes to _write_circle or _write_ellipse
WriteRound ==
    /\ fcall # None /\ fret # None
    /\ The(fcall).fn = "round" /\ The(fcall).primitive = None
    /\ Len(The(fret).val.primitives) = 1
    /\ \E primitive \in {The(fret).val.primitives[1]} :
          /\ fcall' = Some([The(fcall) EXCEPT !.primitive = Some(primitive)])
          /\ fret' = Some(IF primitive.kind = "circle"
                          THEN _write_circle(primitive, RoundAttrs)
                          ELSE _write_ellipse(primitive, RoundAttrs))
    /\ UNCHANGED <<mapping, rvars, wvars, lvars>>

RoundNext == CreateRound \/ WriteRound

SpecRound == RoundInit /\ [][RoundNext]_vars

\* a circle or ellipse primitive has been written
RoundWritten == fcall # None /\ fret # None /\ The(fcall).fn = "round"
                /\ The(fcall).primitive # None

\* the greatest common divisor of two naturals
RECURSIVE Gcd(_, _)
Gcd(a, b) == IF b = 0 THEN a ELSE Gcd(b, a % b)

\* the fraction f is num / den
IsQuotient(f, num, den) ==
    /\ den # 0 /\ f[2] # 0
    /\ <<f[1] \div Gcd(f[1], f[2]), f[2] \div Gcd(f[1], f[2])>>
          = <<num \div Gcd(num, den), den \div Gcd(num, den)>>

\* the one entity written is a CIRCLE of the primitive's radius
OneCircle(primitive, outcome) ==
    /\ outcome.raised = None /\ outcome.count = 1 /\ Len(outcome.added) = 1
    /\ outcome.added[1].type = "CIRCLE"
    /\ outcome.added[1].center = primitive.points[1]
    /\ outcome.added[1].radius = primitive.extra.radius_x

\* the one entity written is an ELLIPSE, its major axis along X
OneEllipse(primitive, outcome) ==
    /\ outcome.raised = None /\ outcome.count = 1 /\ Len(outcome.added) = 1
    /\ outcome.added[1].type = "ELLIPSE"
    /\ outcome.added[1].center = primitive.points[1]
    /\ outcome.added[1].major_axis = <<primitive.extra.radius_x, 0>>

\* the circle of radius 5 of the documents here, and two scalings
IsRadiusFive(call) == call.element.tag = "circle" /\ call.element.attrs["r"] = "5"

\* what the circle of radius 5 gives under the scalings (1, 1) and (1, 2)
RadiusFiveCases(call, outcome) ==
    /\ (IsRadiusFive(call) /\ call.transform = scale_matrix(Milli(1000), Milli(1000)))
          => /\ outcome.added[1].type = "CIRCLE"
             /\ outcome.added[1].radius = Milli(5000)
    /\ (IsRadiusFive(call) /\ call.transform = scale_matrix(Milli(1000), Milli(2000)))
          => /\ outcome.added[1].type = "ELLIPSE"
             /\ outcome.added[1].ratio = <<Milli(10000), Milli(5000)>>

\* the entity is a circle exactly for a circle primitive of radii within
\* 0.1% of each other
CircleExactly(primitive, outcome) ==
    IF primitive.kind = "circle"
       /\ IsClose(primitive.extra.radius_x, primitive.extra.radius_y)
    THEN OneCircle(primitive, outcome)
    ELSE OneEllipse(primitive, outcome)

\* C19 as stated: a circle primitive gives one entity, a circle when its
\* radii are within 0.1% of each other, else an ellipse of ratio
\* radius_y / radius_x; an ellipse primitive gives one ellipse of that ratio
C19_RatioIsQuotient ==
    RoundWritten =>
        \E primitive \in {The(The(fcall).primitive)}, outcome \in {The(fret)} :
           /\ CircleExactly(primitive, outcome)
           /\ outcome.added[1].type = "ELLIPSE"
                 => IsQuotient(outcome.added[1].ratio,
                               primitive.extra.radius_y, primitive.extra.radius_x)
           /\ RadiusFiveCases(The(fcall), outcome)

\* C19: a circle primitive gives one entity, a circle when its radii are
\* within 0.1% of each other (radius 5 under the scaling (1, 1) gives a
\* circle of radius 5), else an ellipse of ratio radius_y / radius_x (ratio
\* 2 under the scaling (1, 2)); an ellipse primitive gives one ellipse of
\* that ratio; the ratio is 1 where radius_x is zero
C19_RatioOrOne ==
    RoundWritten =>
        \E primitive \in {The(The(fcall).primitive)}, outcome \in {The(fret)} :
           /\ CircleExactly(primitive, outcome)
           /\ outcome.added[1].type = "ELLIPSE"
                 => IF primitive.extra.radius_x # 0
                    THEN IsQuotient(outcome.added[1].ratio,
                                    primitive.extra.radius_y, primitive.extra.radius_x)
                    ELSE IsQuotient(outcome.added[1].ratio, 1, 1)
           /\ RadiusFiveCases(The(fcall), outcome)

\* the circle of radius 5 written as an ellipse of ratio 2 under the
\* scaling (1, 2)
C19_Witness ==
    /\ RoundWritten
    /\ IsRadiusFive(The(fcall))
    /\ The(fcall).transform = scale_matrix(Milli(1000), Milli(2000))
    /\ The(fret).added[1].type = "ELLIPSE"
    /\ The(fret).added[1].ratio = <<Milli(10000), Milli(5000)>>


(***************************************************************************)
(* pipeline.py: successive conversions of one document.  A run is either   *)
(* PipelineController.convert (a rule list or None; a new DxfWriter) or a  *)
(* further write of the DxfWriter of the run before.  The sink answers the *)
(* same way in every run.                                                  *)
(***************************************************************************)
\* the runs of one behaviour
MaxRuns == 2

\* the primitives of the documents converted
ConvertPool ==
    { SvgPrimitive("text", << <<1, 1>> >>, EmptyDict, <<>>, None, EmptyDict,
                   [text |-> "t", text_anchor |-> None, font_family |-> "My Font"]),
      SvgPrimitive("line", << <<0, 0>>, <<4, 0>> >>, [stroke |-> "#ff0000"], <<>>,
                   Some("axis"), EmptyDict, EmptyDict),
      SvgPrimitive("polyline", Triangle, [fill |-> "url(#hatch7)"], <<"IfcWall">>, None,
                   EmptyDict, [closed |-> TRUE]) }

ConvertDocs == SeqsUpTo(ConvertPool, 2) \ {<<>>}

\* how the sink answers: whether it refuses a hatch pattern, and what
\* registering a text style does
SinkKinds ==
    { [rejects |-> FALSE, registration |-> "ok"],
      [rejects |-> TRUE, registration |-> "fallback"],
      [rejects |-> FALSE, registration |-> "fail"] }

\* the rules argument of convert: None or a rule list
RulesArguments == {None} \cup {Some(WriteRules[k]) : k \in 1..Len(WriteRules)}

ConvertInit ==
    /\ mapping \in {set_pattern_map(with_defaults, PatternMaps[k]) : k \in 1..2}
    /\ ResolveOff
    /\ wdoc \in ConvertDocs
    /\ WriterIdle
    /\ LoaderIdle
    /\ \E sink \in SinkKinds :
          fcall = Some([fn |-> "convert", run |-> 0, sink |-> sink, rules |-> None,
                        by |-> "none", cache |-> {}])
    /\ fret = Some(<<>>)

\* what is kept of a run that is over
RunRecord ==
    [rules |-> The(fcall).rules, by |-> The(fcall).by, cache |-> The(fcall).cache,
     ended |-> wpc, msp |-> msp, styles |-> styles, layers |-> layers,
     result |-> result, mapping |-> mapping, document |-> wdoc]

\* the runs that are over
Runs == The(fret)

\* the run before is over, if there was one
RunOver == wpc \in {"idle", "done", "aborted"} /\ The(fcall).fn = "convert"

\* the style cache of a writer that keeps the one of the run before
NewWriterCache_Kept == style_cache

\* DxfWriter.__init__: the style cache of a new writer
NewWriterCache == {}

\* a manager whose rule list has the new rules put before the old ones
ReplaceRules_Mixed(mgr, rules) == [mgr EXCEPT !.rules = rules \o @]

\* self.mapping_manager.rules = list(rules)
ReplaceRules(mgr, rules) == [mgr EXCEPT !.rules = rules]

\* PipelineController.convert(document, output_path, rules), up to the loop
\* of write: the rule list is replaced when one is given, and a new
\* DxfWriter writes
Convert ==
    /\ fcall # None /\ RunOver
    /\ The(fcall).run < MaxRuns
    /\ \E rules \in RulesArguments :
          /\ mapping' = IF rules # None THEN ReplaceRules(mapping, The(rules))
                        ELSE mapping
          /\ self_mapping' = Some(mapping')
          /\ fcall' = Some([The(fcall) EXCEPT !.run = @ + 1, !.rules = rules,
                                              !.by = "convert", !.cache = {}])
    /\ fret' = Some(IF The(fcall).run = 0 THEN Runs ELSE Append(Runs, RunRecord))
    /\ style_cache' = NewWriterCache
    /\ wpc' = "loop"
    /\ wi' = 1
    /\ layers' = NewDocLayers
    /\ styles' = NewDocStyles
    /\ msp' = <<>>
    /\ written' = 0
    /\ log_messages' = <<>>
    /\ warnings' = <<>>
    /\ layers_created' = {}
    /\ saved' = FALSE
    /\ result' = None
    /\ UNCHANGED <<rvars, lvars, wdoc>>

\* DxfWriter.write called again on the writer of the run before, with the
\* same manager, up to its loop
WriteAgain ==
    /\ fcall # None /\ RunOver
    /\ The(fcall).run \in 1..(MaxRuns - 1)
    /\ fcall' = Some([The(fcall) EXCEPT !.run = @ + 1, !.rules = None, !.by = "write",
                                        !.cache = style_cache])
    /\ fret' = Some(Append(Runs, RunRecord))
    /\ wpc' = "loop"
    /\ wi' = 1
    /\ layers' = NewDocLayers
    /\ styles' = NewDocStyles
    /\ msp' = <<>>
    /\ written' = 0
    /\ log_messages' = <<>>
    /\ warnings' = <<>>
    /\ layers_created' = {}
    /\ self_mapping' = Some(mapping)
    /\ saved' = FALSE
    /\ result' = None
    /\ UNCHANGED <<mapping, rvars, lvars, wdoc, style_cache>>

\* one pass of the loop of write, the sink answering as it does
ConvertPrimitive ==
    /\ fcall # None /\ The(fcall).fn = "convert"
    /\ WritePrimitiveWith({The(fcall).sink.rejects}, {The(fcall).sink.registration})

ConvertNext == Convert \/ WriteAgain \/ ConvertPrimitive \/ WriteFinish

SpecConvert == ConvertInit /\ [][ConvertNext]_vars


(***************************************************************************)
(* Claims about successive conversions, checked under SpecConvert.         *)
(***************************************************************************)
\* the run before the present one
LastRun == Runs[Len(Runs)]

\* the present run is a convert that is over, after a convert that is over,
\* with the manager as it was then
ConvertedTwice ==
    /\ wpc = "done" /\ Runs # <<>>
    /\ The(fcall).by = "convert" /\ LastRun.by = "convert"
    /\ LastRun.ended = "done"
    /\ LastRun.mapping = mapping

StyleKnown(entity) ==
    \/ entity.style = None
    \/ Upper(The(entity.style)) = "STANDARD"
    \/ StyleExists(styles, The(entity.style))

\* C28: in every run the text style of a text entity is the default
\* STANDARD or a style registered in the drawing of that run, a second
\* write of one DxfWriter registering the style again in its new drawing
C28_StyleRegistered ==
    \A k \in 1..Len(msp) :
        msp[k].ent.type \in {"TEXT", "MTEXT"} => StyleKnown(msp[k].ent)

\* the rules arguments of the runs so far, the present one last
RulesGiven == [k \in 1..Len(Runs) |-> Runs[k].rules] \o <<The(fcall).rules>>

\* the rule list of the most recent run that was given one; the built-in
\* defaults if none was
RECURSIVE LatestRules(_, _)
LatestRules(given, k) ==
    IF k = 0 THEN default_rules
    ELSE IF given[k] # None THEN The(given[k])
    ELSE LatestRules(given, k - 1)

\* C30: a rule list given to convert replaces the rules of the manager
\* wholesale and stays: every run resolves with the rule list of the most
\* recent convert that was given one, with the built-in defaults if none
\* was, never with old and new rules together
C30_RulesPersist ==
    The(fcall).run >= 1 =>
        \E expected \in {LatestRules(RulesGiven, Len(RulesGiven))} :
           /\ mapping.rules = expected
           /\ \A i \in Processed :
                 resolve([mapping EXCEPT !.rules = expected], wdoc[i]).val.layer
                    \in layers_created
           /\ \A k \in 1..Len(msp) :
                 EntityLayer(msp[k].ent)
                    = resolve([mapping EXCEPT !.rules = expected], wdoc[msp[k].src]).val.layer

\* a convert without rules, after one that was given the rule list with
\* tag:polyline, has put the polyline on the layer of that rule
C30_Witness ==
    /\ wpc = "done" /\ The(fcall).run = 2
    /\ The(fcall).by = "convert" /\ The(fcall).rules = None
    /\ LastRun.rules = Some(WriteRules[3])
    /\ \E k \in 1..Len(msp) : /\ wdoc[msp[k].src].kind = "polyline"
                              /\ EntityLayer(msp[k].ent) = "P-RED"


(***************************************************************************)
(* svg_loader.py: the constructors of polyline and polygon elements.       *)
(* Coordinates are counted in grid steps, as simplify_polyline takes them. *)
(***************************************************************************)
MaxCoords == 5

\* float() of a coordinate, in grid steps
GridFloat(s) ==
    IF ParseFloat(s).ok THEN Ok(ParseFloat(s).val \div (FixedOne \div GridPerUnit))
    ELSE ParseFloat(s)

\* the loop of parse_points_attribute over the pairs of parts, from the
\* i-th part on: a pair with a part that is no number is passed over
RECURSIVE PairsFrom(_, _)
PairsFrom(parts, i) ==
    IF i + 1 > Len(parts) THEN <<>>
    ELSE (IF GridFloat(parts[i]).ok /\ GridFloat(parts[i + 1]).ok
          THEN << <<GridFloat(parts[i]).val, GridFloat(parts[i + 1]).val>> >>
          ELSE <<>>) \o PairsFrom(parts, i + 2)

\* parse_points_attribute: commas are blanks, a last part without a partner
\* is dropped
parse_points_attribute(value) ==
    PairsFrom(NonEmptyFrom(SplitOn(Strip(ReplaceCh(value, ",", " ")), " ", ""), 1), 1)

\* apply_transform for a matrix of whole numbers
GridTransform(matrix, points) ==
    [k \in 1..Len(points) |->
        << matrix[1][1] * points[k][1] + matrix[1][2] * points[k][2] + matrix[1][3],
           matrix[2][1] * points[k][1] + matrix[2][2] * points[k][2] + matrix[2][3] >>]

\* SvgPrimitive(kind="polyline", ...) as both constructors build it
PolylinePrimitive(element, points, style, classes, closed, origin) ==
    SvgPrimitive("polyline", points, style, classes, AttrGet(element, "id"), element.attrs,
                 [closed |-> closed, origin |-> origin])

\* _create_polyline
_create_polyline(element, transform, style, classes) ==
    LET points == parse_points_attribute(AttrOr(element, "points", ""))
    IN  IF points = <<>> THEN Created(<<>>, <<>>)
        ELSE Created(<<PolylinePrimitive(element,
                          simplify_polyline(GridTransform(transform, points), FALSE),
                          style, classes, FALSE, "polyline")>>, <<>>)

\* if points[0] != points[-1]: points.append(points[0])
ClosePoints(points) ==
    IF points[1] # points[Len(points)] THEN Append(points, points[1]) ELSE points

\* _create_polygon
_create_polygon(element, transform, style, classes) ==
    LET points == parse_points_attribute(AttrOr(element, "points", ""))
    IN  IF points = <<>> THEN Created(<<>>, <<>>)
        ELSE Created(<<PolylinePrimitive(element,
                          simplify_polyline(GridTransform(transform, ClosePoints(points)), TRUE),
                          style, classes, TRUE, "polygon")>>, <<>>)

\* the parts a points attribute is written with: three numbers and a text
\* that is none
CoordTexts == {"0", "2.5", "5", "x"}

\* the parts as a points attribute: x,y pairs with a blank between them
RECURSIVE PointsText(_, _)
PointsText(parts, k) ==
    IF k > Len(parts) THEN ""
    ELSE parts[k] \o (IF k = Len(parts) THEN "" ELSE IF k % 2 = 1 THEN "," ELSE " ")
         \o PointsText(parts, k + 1)

\* the transforms of the runs: the identity and a root matrix that turns
\* the y axis over
GridMatrices == { << <<1, 0, 0>>, <<0, 1, 0>> >>, << <<1, 0, 0>>, <<0, -1, 400>> >> }

PointsInit ==
    /\ mapping = with_defaults
    /\ ResolveOff
    /\ wdoc = <<>>
    /\ WriterIdle
    /\ LoaderIdle
    /\ \E parts \in SeqsUpTo(CoordTexts, MaxCoords), matrix \in GridMatrices,
          tag \in {"polyline", "polygon"} :
          fcall = Some([fn |-> "create",
                        element |-> Element(tag, [id |-> "p1", points |-> PointsText(parts, 1)],
                                            <<>>, ""),
                        transform |-> matrix])
    /\ fret = None

\* the loop of _load_internal comes to a polyline element
CreatePolyline ==
    /\ fcall # None /\ fret = None
    /\ The(fcall).fn = "create" /\ LocalName(The(fcall).element) = "polyline"
    /\ fret' = Some(_create_polyline(The(fcall).element, The(fcall).transform, EmptyDict, <<>>))
    /\ UNCHANGED <<mapping, rvars, wvars, lvars, fcall>>

\* the loop of _load_internal comes to a polygon element
CreatePolygon ==
    /\ fcall # None /\ fret = None
    /\ The(fcall).fn = "create" /\ LocalName(The(fcall).element) = "polygon"
    /\ fret' = Some(_create_polygon(The(fcall).element, The(fcall).transform, EmptyDict, <<>>))
    /\ UNCHANGED <<mapping, rvars, wvars, lvars, fcall>>

PointsNext == CreatePolyline \/ CreatePolygon

SpecPoints == PointsInit /\ [][PointsNext]_vars

(***************************************************************************)
(* Claims about the points of primitives, checked under SpecPoints.        *)
(***************************************************************************)
\* the length rule of the data model
LengthRule(primitive) ==
    /\ primitive.kind = "line" => Len(primitive.points) = 2
    /\ primitive.kind = "polyline" => Len(primitive.points) >= 2

\* C29: every primitive a constructor hands to the document keeps the
\* length rule: a line has two points, a polyline at least two
C29_LengthRule ==
    (fcall # None /\ fret # None /\ The(fcall).fn = "create") =>
        \A k \in 1..Len(The(fret).val.primitives) : LengthRule(The(fret).val.primitives[k])
====
